---- MODULE Spec2Model ----
(***************************************************************************)
(* Model of the segment-alignment engine of dify-xunfei_audio_asr          *)
(* (tools/mandarin_translate_json.py), of the shared credentials manager   *)
(* (tools/credentials_manager.py) and of the tool entry point              *)
(* (tools/xunfei-mandarin-asr-translate.py).                               *)
(*                                                                         *)
(* Strings are sequences of symbols.  TLA+ string literals are ASCII, so   *)
(* the full-width characters of the source are written by name:            *)
(*   "FW_OPEN" = U+3010, "FW_CLOSE" = U+3011 (the brackets of the enhanced *)
(*   marker), "FW_STOP" "FW_EXCL" "FW_QUES" "FW_COMMA" "FW_SEMI"           *)
(*   "FW_COLON" "FW_ENUM" = the full-width members of split_chars.         *)
(* The literal prefix "[XF_SEGMENT_" of the leading marker is the single   *)
(* symbol "XF_OPEN"; digits, "]" and " " are themselves.                   *)
(***************************************************************************)
EXTENDS Integers, Sequences, FiniteSets, TLC

\* ------------------------------------------------------------------ bounds
\* Largest number of segments of an input sequence.
MaxSegs == 2
\* Largest number of pieces of a free-form translator answer.
MaxPieces == 2

\* the longest translated string handed to smart_split_translation
MaxLen == 5
\* the largest number of segments handed to smart_split_translation
MaxSplitSegs == 3
\* the length of the long translated strings handed to smart_split_translation
LongLen == 22

\* the largest number of words of one recognition message
MaxWords == 2
\* the largest number of messages handled by on_message in one recognition
MaxMessages == 3
\* the largest number of full audio frames of an audio file
MaxFrames == 2
\* the largest number of messages handled in one recognition of the tool
MaxToolMessages == 2

\* ------------------------------------------------------- python primitives
Min(S) == CHOOSE m \in S : \A o \in S : m <= o
Max(S) == CHOOSE m \in S : \A o \in S : m >= o

\* str.isspace of one symbol (the model's alphabet has one whitespace symbol)
IsSpace(c) == c = " "

\* \d of one symbol
IsDigit(c) == c \in {"0", "1", "2", "3", "4", "5", "6", "7", "8", "9"}

\* s[a:b] for 0 <= a, 0 <= b
Slice(s, a, b) ==
  LET e == IF b > Len(s) THEN Len(s) ELSE b
  IN  IF a >= e THEN <<>> ELSE SubSeq(s, a + 1, e)

\* s.find(sub, start): the lowest 0-based index >= start where sub occurs, or -1
Find(s, sub, start) ==
  LET hits == {p \in start..(Len(s) - Len(sub)) : SubSeq(s, p + 1, p + Len(sub)) = sub}
  IN  IF hits = {} THEN -1 ELSE Min(hits)

\* s.strip()
Strip(s) ==
  LET keep == {p \in 1..Len(s) : ~IsSpace(s[p])}
  IN  IF keep = {} THEN <<>> ELSE SubSeq(s, Min(keep), Max(keep))

\* str(n) for n >= 0, as a sequence of digit symbols
RECURSIVE IntToStr(_)
IntToStr(n) ==
  LET d == <<"0", "1", "2", "3", "4", "5", "6", "7", "8", "9">>
  IN  IF n < 10 THEN <<d[n + 1]>> ELSE IntToStr(n \div 10) \o <<d[(n % 10) + 1]>>

\* a dict assignment that renumbers the key
DictSetRenumbered(d, k, v) ==
  [x \in (DOMAIN d) \cup {k + 1} |-> IF x = k + 1 THEN v ELSE d[x]]

\* d[k] = v on a dict
DictSet(d, k, v) == [x \in (DOMAIN d) \cup {k} |-> IF x = k THEN v ELSE d[x]]

\* "".join(parts)
RECURSIVE Join(_)
Join(parts) == IF parts = <<>> THEN <<>> ELSE Head(parts) \o Join(Tail(parts))

\* ------------------------------------------------------------- the markers
\* f"[XF_SEGMENT_{segment['id']}]"
Marker(id) == <<"XF_OPEN">> \o IntToStr(id) \o <<"]">>

\* f"【{segment['id']}】"
EnhancedMarker(id) == <<"FW_OPEN">> \o IntToStr(id) \o <<"FW_CLOSE">>

\* marked_text of translate_text
RECURSIVE MarkedText(_)
MarkedText(segs) ==
  IF segs = <<>> THEN <<>>
  ELSE Marker(Head(segs).id) \o Head(segs).text \o MarkedText(Tail(segs))

\* marked_text of translate_text_with_enhanced_markers
RECURSIVE EnhancedMarkedText(_)
EnhancedMarkedText(segs) ==
  IF segs = <<>> THEN <<>>
  ELSE EnhancedMarker(Head(segs).id) \o Head(segs).text \o EnhancedMarker(Head(segs).id)
         \o EnhancedMarkedText(Tail(segs))

\* combined_text of translate_and_smart_split
CombinedText(segs) == Join([k \in 1..Len(segs) |-> segs[k].text])

\* ------------------------------------------------------- boundary snapper
split_chars == {"FW_STOP", "FW_EXCL", "FW_QUES", "FW_COMMA", "FW_SEMI", "FW_COLON", " ", "FW_ENUM"}

search_range == 5

\* the distances k at which target+k holds a boundary character of the text
ForwardHits(text, target_pos) ==
  {k \in 0..search_range :
     target_pos + k < Len(text) /\ text[target_pos + k + 1] \in split_chars}

\* the distances k at which target-k, beyond min, holds a boundary character
BackwardHits(text, target_pos, min_pos) ==
  {k \in 1..search_range :
     target_pos - k > min_pos /\ text[target_pos - k + 1] \in split_chars}

\* a scan of the whole forward window before the backward window
ScanSplitForwardFirst(text, target_pos, min_pos, offset) ==
  IF ForwardHits(text, target_pos) # {}
  THEN target_pos + Min(ForwardHits(text, target_pos)) + 1
  ELSE IF BackwardHits(text, target_pos, min_pos) # {}
  THEN target_pos - Min(BackwardHits(text, target_pos, min_pos)) + 1
  ELSE target_pos

\* a loop whose backward test forgets min_pos
RECURSIVE ScanSplitBelowMin(_, _, _, _)
ScanSplitBelowMin(text, target_pos, min_pos, offset) ==
  IF offset > search_range THEN target_pos
  ELSE IF target_pos + offset < Len(text) /\ text[target_pos + offset + 1] \in split_chars
       THEN target_pos + offset + 1
  ELSE IF offset > 0 /\ target_pos - offset >= 0
            /\ text[target_pos - offset + 1] \in split_chars
       THEN target_pos - offset + 1
  ELSE ScanSplitBelowMin(text, target_pos, min_pos, offset + 1)

\* the loop of find_best_split_position from `offset` on
RECURSIVE ScanSplit(_, _, _, _)
ScanSplit(text, target_pos, min_pos, offset) ==
  IF offset > search_range THEN target_pos
  ELSE IF target_pos + offset < Len(text) /\ text[target_pos + offset + 1] \in split_chars
       THEN target_pos + offset + 1
  ELSE IF offset > 0 /\ target_pos - offset > min_pos
            /\ text[target_pos - offset + 1] \in split_chars
       THEN target_pos - offset + 1
  ELSE ScanSplit(text, target_pos, min_pos, offset + 1)

\* a snapper that hands back a target beyond the end of the text
SnapTargetUnclamped(text, target_pos, min_pos) ==
  IF target_pos <= min_pos THEN min_pos
  ELSE IF target_pos >= Len(text) THEN target_pos
  ELSE ScanSplit(text, target_pos, min_pos, 0)

\* a snapper that scans although the target is not beyond min_pos
SnapWithoutMinCase(text, target_pos, min_pos) ==
  IF target_pos >= Len(text) THEN Len(text)
  ELSE ScanSplit(text, target_pos, min_pos, 0)

find_best_split_position(text, target_pos, min_pos) ==
  IF target_pos >= Len(text) THEN Len(text)
  ELSE IF target_pos <= min_pos THEN min_pos
  ELSE ScanSplit(text, target_pos, min_pos, 0)

\* ------------------------------------------------------------ smart split
\* sum(len(seg["text"]) for seg in segments)
RECURSIVE TotalChars(_)
TotalChars(segs) == IF segs = <<>> THEN 0 ELSE Len(Head(segs).text) + TotalChars(Tail(segs))

\* the loop of the total_original_chars == 0 branch, from index i (0-based) on
RECURSIVE EvenSplit(_, _, _, _)
EvenSplit(segs, full, i, acc) ==
  IF i >= Len(segs) THEN acc
  ELSE LET avg_length == Len(full) \div Len(segs)
           start_pos == i * avg_length
           end_pos == IF i < Len(segs) - 1 THEN (i + 1) * avg_length ELSE Len(full)
       IN  EvenSplit(segs, full, i + 1,
                     DictSet(acc, segs[i + 1].id, Strip(Slice(full, start_pos, end_pos))))

\* the lengths <<len(full_translation), len(text), total>>, all of them up to
\* 40, for which the double product len(full) * (len(text) / total) falls
\* just below the integer len(full) * len(text) / total, so that int()
\* yields one less than the exact floor
FloatShort == { <<22, 15, 22>>, <<23, 13, 23>>, <<26, 15, 26>>, <<39, 31, 39>> }

\* the floor of the exact quotient len(full) * len(text) / total
ExactLength(full, text, total) == (Len(full) * Len(text)) \div total

\* int(len(full_translation) * (len(text) / total)) in double arithmetic
SegmentLength(full, text, total) ==
  IF <<Len(full), Len(text), total>> \in FloatShort
  THEN ExactLength(full, text, total) - 1
  ELSE ExactLength(full, text, total)

\* the proportional loop, from index i (0-based) and cursor current_pos on
RECURSIVE RatioSplit(_, _, _, _, _)
RatioSplit(segs, full, i, current_pos, acc) ==
  IF i >= Len(segs) THEN acc
  ELSE LET seg == segs[i + 1]
           last == i = Len(segs) - 1
           target_pos == current_pos + SegmentLength(full, seg.text, TotalChars(segs))
           best_split_pos == find_best_split_position(full, target_pos, current_pos)
           segment_translation ==
             IF last THEN Strip(Slice(full, current_pos, Len(full)))
             ELSE Strip(Slice(full, current_pos, best_split_pos))
           value == IF segment_translation # <<>> THEN segment_translation ELSE seg.text
       IN  RatioSplit(segs, full, i + 1, IF last THEN current_pos ELSE best_split_pos,
                      DictSet(acc, seg.id, value))

smart_split_translation(segs, full) ==
  IF TotalChars(segs) = 0 THEN EvenSplit(segs, full, 0, <<>>)
  ELSE RatioSplit(segs, full, 0, 0, <<>>)

\* ---------------------------------------------------- marker extraction
\* an extraction loop that gives a segment whose marker is absent no entry
RECURSIVE ExtractMarkersNoFallback(_, _, _, _)
ExtractMarkersNoFallback(segs, full, i, acc) ==
  IF i > Len(segs) THEN acc
  ELSE LET seg == segs[i]
           marker == Marker(seg.id)
           start_pos == Find(full, marker, 0)
           next_marker == Marker(seg.id + 1)
           found_end == Find(full, next_marker, start_pos)
           end_pos == IF found_end = -1 THEN Len(full) ELSE found_end
       IN  ExtractMarkersNoFallback(segs, full, i + 1,
             IF start_pos # -1
             THEN DictSet(acc, seg.id, Strip(Slice(full, start_pos + Len(marker), end_pos)))
             ELSE acc)

\* the extraction loop of translate_text, over the segments from index i on
RECURSIVE ExtractMarkers(_, _, _, _)
ExtractMarkers(segs, full, i, acc) ==
  IF i > Len(segs) THEN acc
  ELSE LET seg == segs[i]
           marker == Marker(seg.id)
           start_pos == Find(full, marker, 0)
           next_marker == Marker(seg.id + 1)
           found_end == Find(full, next_marker, start_pos)
           end_pos == IF found_end = -1 THEN Len(full) ELSE found_end
           value == IF start_pos # -1
                    THEN Strip(Slice(full, start_pos + Len(marker), end_pos))
                    ELSE seg.text
       IN  ExtractMarkers(segs, full, i + 1, DictSet(acc, seg.id, value))

\* an extraction loop that keeps the text between the two markers as it is
RECURSIVE ExtractEnhancedUntrimmed(_, _, _, _)
ExtractEnhancedUntrimmed(segs, full, i, acc) ==
  IF i > Len(segs) THEN acc
  ELSE LET seg == segs[i]
           start_marker == EnhancedMarker(seg.id)
           first_marker_pos == Find(full, start_marker, 0)
           second_marker_pos ==
             IF first_marker_pos = -1 THEN -1
             ELSE Find(full, start_marker, first_marker_pos + Len(start_marker))
           value == IF first_marker_pos = -1 \/ second_marker_pos = -1 THEN seg.text
                    ELSE Slice(full, first_marker_pos + Len(start_marker), second_marker_pos)
       IN  ExtractEnhancedUntrimmed(segs, full, i + 1, DictSet(acc, seg.id, value))

\* the extraction loop of translate_text_with_enhanced_markers
RECURSIVE ExtractEnhanced(_, _, _, _)
ExtractEnhanced(segs, full, i, acc) ==
  IF i > Len(segs) THEN acc
  ELSE LET seg == segs[i]
           start_marker == EnhancedMarker(seg.id)
           first_marker_pos == Find(full, start_marker, 0)
           second_marker_pos ==
             IF first_marker_pos = -1 THEN -1
             ELSE Find(full, start_marker, first_marker_pos + Len(start_marker))
           translation ==
             Strip(Slice(full, first_marker_pos + Len(start_marker), second_marker_pos))
           value == IF first_marker_pos = -1 \/ second_marker_pos = -1 THEN seg.text
                    ELSE IF translation # <<>> THEN translation ELSE seg.text
       IN  ExtractEnhanced(segs, full, i + 1, DictSet(acc, seg.id, value))

\* the length of the match of the pattern FW_OPEN \d+ FW_CLOSE at 1-based p, or 0
MarkerMatchLen(s, p) ==
  IF s[p] # "FW_OPEN" THEN 0
  ELSE LET stops == {q \in (p + 1)..Len(s) : ~IsDigit(s[q])}
           q == IF stops = {} THEN Len(s) + 1 ELSE Min(stops)
       IN  IF q > p + 1 /\ q <= Len(s) /\ s[q] = "FW_CLOSE" THEN q - p + 1 ELSE 0

\* re.sub of the enhanced-marker pattern by "", from 1-based p on
RECURSIVE RemoveMarkers(_, _)
RemoveMarkers(s, p) ==
  IF p > Len(s) THEN <<>>
  ELSE IF MarkerMatchLen(s, p) > 0 THEN RemoveMarkers(s, p + MarkerMatchLen(s, p))
  ELSE <<s[p]>> \o RemoveMarkers(s, p + 1)

\* re.sub(r"\s+", " ", s)
RECURSIVE CollapseSpaces(_)
CollapseSpaces(s) ==
  IF s = <<>> THEN <<>>
  ELSE IF IsSpace(Head(s)) /\ Len(s) > 1 /\ IsSpace(s[2]) THEN CollapseSpaces(Tail(s))
  ELSE IF IsSpace(Head(s)) THEN <<" ">> \o CollapseSpaces(Tail(s))
  ELSE <<Head(s)>> \o CollapseSpaces(Tail(s))

clean_markers_from_translation(translation) ==
  Strip(CollapseSpaces(RemoveMarkers(translation, 1)))

\* ------------------------------------------------------ credentials
\* Python's None, and the three class attributes of CredentialsManager
NoneValue == "<None>"

UnsetCredentials == [app_id |-> NoneValue, api_key |-> NoneValue, api_secret |-> NoneValue]

\* the credential triples a caller passes to set_credentials
CredentialInputs ==
  { [app_id |-> "app1", api_key |-> "key1", api_secret |-> "secret1"],
    [app_id |-> "", api_key |-> "key1", api_secret |-> "secret1"] }

is_configured(c) ==
  c.app_id # NoneValue /\ c.api_key # NoneValue /\ c.api_secret # NoneValue

\* get_credentials: the triple as it is at the moment of the call
get_credentials(c) == c

\* ------------------------------------------------------ the translator
\* TranslationAPI.__init__: without credentials the error message is set and
\* APPID, APIKey and Secret are never assigned
TranslationAPI(c) ==
  IF ~is_configured(c)
  THEN [hasAttrs |-> FALSE, error |-> TRUE, APPID |-> NoneValue, APIKey |-> NoneValue,
        Secret |-> NoneValue]
  ELSE [hasAttrs |-> TRUE, error |-> FALSE, APPID |-> get_credentials(c).app_id,
        APIKey |-> get_credentials(c).api_key, Secret |-> get_credentials(c).api_secret]

\* a translator object before any is built
NoTranslator ==
  [hasAttrs |-> FALSE, error |-> FALSE, APPID |-> NoneValue, APIKey |-> NoneValue,
   Secret |-> NoneValue]

\* what the network and the vendor can do with one request
NetFailures ==
  { [kind |-> "RequestException", dst |-> <<>>],
    [kind |-> "status_not_200", dst |-> <<>>],
    [kind |-> "bad_body", dst |-> <<>>],
    [kind |-> "vendor_code", dst |-> <<>>] }

\* the outcome of call_url: raised (an exception left call_url), error (the
\* object's transcription_error_message is set), isNone/text (the return value)
call_url(api, net) ==
  IF ~api.hasAttrs
  THEN [raised |-> TRUE, error |-> api.error, isNone |-> TRUE, text |-> <<>>]
  ELSE IF api.APPID = "" \/ api.APIKey = "" \/ api.Secret = ""
  THEN [raised |-> FALSE, error |-> TRUE, isNone |-> TRUE, text |-> <<>>]
  ELSE IF net.kind \in {"RequestException", "status_not_200", "vendor_code"}
  THEN [raised |-> FALSE, error |-> TRUE, isNone |-> TRUE, text |-> <<>>]
  ELSE IF net.kind = "bad_body"
  THEN [raised |-> TRUE, error |-> api.error, isNone |-> TRUE, text |-> <<>>]
  ELSE [raised |-> FALSE, error |-> api.error, isNone |-> FALSE, text |-> net.dst]

\* truthiness of a returned translation: neither None nor ""
Truthy(out) == ~out.isNone /\ out.text # <<>>

\* ------------------------------------------------------ the strategies
NoneResult == [kind |-> "None", map |-> <<>>]
\* nothing returned yet
NotReturned == [kind |-> "NotReturned", map |-> <<>>]
RaiseResult == [kind |-> "Raise", map |-> <<>>]
MappingResult(m) == [kind |-> "Mapping", map |-> m]

\* smart_split_translation as called: len(segments) = 0 divides by zero
SmartSplitResult(segs, full) ==
  IF segs = <<>> THEN RaiseResult ELSE MappingResult(smart_split_translation(segs, full))

\* a translate_text that gives up when a marker is missing from the output
translate_text_strict(segs, out) ==
  IF segs = <<>> THEN NoneResult
  ELSE IF out.raised \/ out.error THEN RaiseResult
  ELSE IF ~Truthy(out) THEN RaiseResult
  ELSE IF \E k \in 1..Len(segs) : Find(out.text, Marker(segs[k].id), 0) = -1 THEN RaiseResult
  ELSE MappingResult(ExtractMarkers(segs, out.text, 1, <<>>))

\* a translate_text that answers a failed call with the original texts
translate_text_lenient(segs, out) ==
  IF segs = <<>> THEN NoneResult
  ELSE IF out.raised \/ out.error \/ ~Truthy(out)
  THEN MappingResult(ExtractMarkers(segs, <<>>, 1, <<>>))
  ELSE MappingResult(ExtractMarkers(segs, out.text, 1, <<>>))

\* translate_text after its translator call returned `out`
translate_text(segs, out) ==
  IF segs = <<>> THEN NoneResult
  ELSE IF out.raised \/ out.error THEN RaiseResult
  ELSE IF ~Truthy(out) THEN RaiseResult
  ELSE MappingResult(ExtractMarkers(segs, out.text, 1, <<>>))

\* translate_text_with_enhanced_markers after its translator call returned `out`
translate_text_with_enhanced_markers(segs, out) ==
  IF segs = <<>> THEN NoneResult
  ELSE IF out.raised \/ out.error THEN RaiseResult
  ELSE IF ~Truthy(out) THEN RaiseResult
  ELSE LET segment_translations == ExtractEnhanced(segs, out.text, 1, <<>>)
       IN  IF Cardinality(DOMAIN segment_translations) = Len(segs)
           THEN MappingResult(segment_translations)
           ELSE SmartSplitResult(segs, clean_markers_from_translation(out.text))

\* translate_and_smart_split after its translator call returned `out`
translate_and_smart_split(segs, out) ==
  IF out.raised THEN RaiseResult
  ELSE IF ~Truthy(out) \/ out.error THEN RaiseResult
  ELSE SmartSplitResult(segs, out.text)

\* a single-segment path without its try/except
SingleSegmentUnguarded(segs, out) ==
  IF out.raised THEN RaiseResult
  ELSE IF Truthy(out) /\ ~out.error
  THEN MappingResult(DictSet(<<>>, segs[1].id, out.text))
  ELSE MappingResult(DictSet(<<>>, segs[1].id, segs[1].text))

\* the single-segment path of translate_text_robust after its call returned
SingleSegment(segs, out) ==
  IF ~out.raised /\ Truthy(out) /\ ~out.error
  THEN MappingResult(DictSet(<<>>, segs[1].id, out.text))
  ELSE MappingResult(DictSet(<<>>, segs[1].id, segs[1].text))

\* the strategies list with Enhanced-Marker tried first
StrategiesEnhancedFirst ==
  <<"translate_text_with_enhanced_markers", "translate_text", "translate_and_smart_split">>

\* the strategies list of translate_text_robust, in order
strategies ==
  <<"translate_text", "translate_text_with_enhanced_markers", "translate_and_smart_split">>

\* a loop that tries the rejected strategy again
RetrySameStrategy(i) == i

\* the strategy the for loop tries after strategy i was rejected
NextStrategy(i) == i + 1

\* an except clause that leaves the loop
AfterRaiseBreak(i) == 4

\* an except clause that tries the strategy again
AfterRaiseRetry(i) == i

\* the strategy tried after strategy i raised: the except clause continues the loop
AfterRaise(i) == i + 1

\* an entry test that translate_text lacks
ReturnsNoneExceptTranslateText(e, segs) ==
  segs = <<>> /\ e \notin {"translate_and_smart_split", "translate_text"}

\* the `if not segments: return None` of the entry points that have it
ReturnsNoneAtEntry(e, segs) == segs = <<>> /\ e # "translate_and_smart_split"

\* a try/except that does not cover the last strategy
CaughtExceptLast(i) == i \in 1..2

\* the try/except of the ladder catches what strategy i raises
Caught(i) == i \in 1..Len(strategies)

\* an acceptance test that wants every segment changed
AcceptsOnlyIfAllDiffer(result, segs) ==
  /\ result.kind = "Mapping"
  /\ Cardinality(DOMAIN result.map) = Len(segs)
  /\ \A k \in 1..Len(segs) :
       segs[k].id \in DOMAIN result.map /\ result.map[segs[k].id] # segs[k].text

\* the acceptance test of the ladder
Accepts(result, segs) ==
  /\ result.kind = "Mapping"
  /\ result.map # <<>>
  /\ Cardinality(DOMAIN result.map) = Len(segs)
  /\ LET missing == {k \in 1..Len(segs) : segs[k].id \notin DOMAIN result.map}
          differs == {k \in 1..Len(segs) : /\ segs[k].id \in DOMAIN result.map
                                          /\ result.map[segs[k].id] # segs[k].text}
     IN  differs # {} /\ (missing = {} \/ Min(differs) < Min(missing))

\* {segment["id"]: segment["text"] for segment in segments}
RECURSIVE IdentityMapping(_, _)
IdentityMapping(segs, acc) ==
  IF segs = <<>> THEN acc
  ELSE IdentityMapping(Tail(segs), DictSet(acc, Head(segs).id, Head(segs).text))

\* ------------------------------------------------------ inputs
\* the texts of the input segments: non-blank, as the recognizer appends them
Texts == { <<"a">>, <<"FW_COMMA">>, <<" ", "a">>, <<"a", "FW_COMMA">> }

\* segment sequences with id = position, as the recognizer numbers them
SegmentInputs ==
  UNION { { [k \in 1..n |-> [id |-> k - 1, text |-> t[k]]] : t \in [1..n -> Texts] }
          : n \in 0..MaxSegs }

\* the vendor's per-symbol translation of a text
TranslateSymbols(text) == [k \in 1..Len(text) |-> IF text[k] = "a" THEN "x" ELSE text[k]]

\* a structured answer: the segments in order, each translated or echoed, each
\* with the markers of `style` unless the vendor lost the markers of its id
RECURSIVE Render(_, _, _, _)
Render(segs, style, lost, translated) ==
  IF segs = <<>> THEN <<>>
  ELSE LET seg == Head(segs)
           body == IF translated THEN TranslateSymbols(seg.text) ELSE seg.text
           open == IF seg.id \in lost \/ style = "plain" THEN <<>>
                   ELSE IF style = "leading" THEN Marker(seg.id)
                   ELSE EnhancedMarker(seg.id)
           close == IF seg.id \in lost \/ style # "enhanced" THEN <<>>
                    ELSE EnhancedMarker(seg.id)
       IN  open \o body \o close \o Render(Tail(segs), style, lost, translated)

StructuredAnswers(segs) ==
  { Render(segs, style, lost, translated) :
      style \in {"plain", "leading", "enhanced"},
      lost \in SUBSET {segs[k].id : k \in 1..Len(segs)},
      translated \in BOOLEAN }

\* the pieces of a free-form answer
Palette ==
  { Marker(0), Marker(1), Marker(2), EnhancedMarker(0), EnhancedMarker(1),
    <<"x">>, <<"FW_COMMA">>, <<" ">> }

FreeAnswers == { Join(ps) : ps \in UNION { [1..k -> Palette] : k \in 0..MaxPieces } }

\* the strings the vendor may return for a request carrying `text`
Answers(segs, text) == {text} \cup StructuredAnswers(segs) \cup FreeAnswers

\* call_url reaches requests.post only with all three credentials non-empty
Posts(api) == api.hasAttrs /\ api.APPID # "" /\ api.APIKey # "" /\ api.Secret # ""

NoRequest == [kind |-> "no_request", dst |-> <<>>]

NetResponses(api, segs, text) ==
  IF Posts(api)
  THEN NetFailures \cup { [kind |-> "ok", dst |-> t] : t \in Answers(segs, text) }
  ELSE {NoRequest}

\* ------------------------------------------------------ speech recognition
STATUS_FIRST_FRAME == 0
STATUS_CONTINUE_FRAME == 1
STATUS_LAST_FRAME == 2

\* frameSize of on_open.run: the bytes of audio read for one frame
frameSize == 1280

\* max_retries of on_open.run
max_retries == 3

\* SpeechRecognitionResult()
NewResult ==
  [recognized_text |-> <<>>, semantic_segments |-> <<>>, word_details |-> <<>>,
   error_message |-> ""]

\* no WebSocketApp yet: ws.sock is None, nothing sent, nothing received
NoSocket == [sock |-> FALSE, result_instance |-> NewResult, frames |-> <<>>, handled |-> 0]

\* the sender thread before on_open
NoThread ==
  [pc |-> "Idle", url |-> FALSE, exists |-> FALSE, size |-> 0, attempt |-> 0, tried |-> 0,
   gets |-> 0, downloaded |-> FALSE, pos |-> 0, status |-> STATUS_FIRST_FRAME, audio |-> 0]

\* the tuple xunfei_mandarin_asr_translate returns: text, transcription, message
ReturnTuple(text, transcription, message) ==
  [text |-> text, transcription |-> transcription, message |-> message]

\* the tool before xunfei_mandarin_asr_translate is called
NoTool == [pc |-> "Idle", returned |-> ReturnTuple(<<>>, <<>>, "")]

\* the entries of text["ws"]: the first candidate word, its language, and bg
WordItems ==
  { [w |-> <<" ">>, bg |-> 0, lg |-> ""],
    [w |-> <<"a">>, bg |-> 1, lg |-> "cn"],
    [w |-> <<"b", " ">>, bg |-> 2, lg |-> "en"] }

\* the decoded text["ws"] lists of a message
WordLists == UNION { [1..n -> WordItems] : n \in 0..MaxWords }

\* the messages of the recognition service, decoded
Messages ==
  { [code |-> 0, status |-> st, has_payload |-> TRUE, text_ws |-> l] :
      st \in 0..2, l \in WordLists }
  \cup { [code |-> 0, status |-> st, has_payload |-> FALSE, text_ws |-> <<>>] : st \in 0..2 }
  \cup { [code |-> 10165, status |-> 0, has_payload |-> FALSE, text_ws |-> <<>>] }

\* the entry of result.word_details made for one word
WordDetail(word_item) ==
  [begin_time |-> word_item.bg * 10,
   end_time |-> word_item.bg * 10 + Len(word_item.w) * 100,
   text |-> word_item.w,
   language |-> word_item.lg]

\* an id that counts the words received
SegmentIdCountingWords(r) == Len(r.word_details)

\* segment_id = len(result.semantic_segments)
segment_id(r) == Len(r.semantic_segments)

\* word indices that start at the first word of the recognition
WordIndicesFromStart(r, text_ws) == <<0, Len(r.word_details) - 1>>

\* [len(result.word_details) - len(text_ws), len(result.word_details) - 1]
word_indices(r, text_ws) ==
  <<Len(r.word_details) - Len(text_ws), Len(r.word_details) - 1>>

\* the payload branch of on_message on result r
OnPayload(r, text_ws) ==
  LET words == [k \in 1..Len(text_ws) |-> WordDetail(text_ws[k])]
      segment_text == Join([k \in 1..Len(text_ws) |-> text_ws[k].w])
      r1 == [r EXCEPT !.recognized_text = @ \o segment_text,
                      !.word_details = @ \o words]
      n  == Len(r1.word_details)
  IN  IF Strip(segment_text) # <<>>
      THEN [r1 EXCEPT !.semantic_segments =
              Append(@, [id |-> segment_id(r1),
                         text |-> segment_text,
                         begin_time |-> r1.word_details[n - Len(text_ws) + 1].begin_time,
                         end_time |-> r1.word_details[n].end_time,
                         word_indices |-> word_indices(r1, text_ws)])]
      ELSE r1

\* the lengths in bytes of the audio files
AudioSizes ==
  {0, 1} \cup { k * frameSize : k \in 1..MaxFrames }
         \cup { k * frameSize + 1 : k \in 1..(MaxFrames - 1) }

\* the audio_file arguments: a URL or a local path, the file existing or not
AudioFiles ==
  { [url |-> u, exists |-> TRUE, size |-> n] : u \in BOOLEAN, n \in AudioSizes }
  \cup { [url |-> FALSE, exists |-> FALSE, size |-> 0] }

\* the length of str(base64.b64encode(buf), "utf-8") for a buf of n bytes
B64Len(n) == 4 * ((n + 2) \div 3)

\* the frame built for a status: only the first frame has "parameter"
Frame(status, audio) ==
  [status |-> status, parameter |-> (status = STATUS_FIRST_FRAME), audio |-> audio]

\* what one download attempt does: the requests.get calls and how it ends
DownloadOutcomes == { <<"ok">>, <<"error">>, <<"SSLError", "ok">>, <<"SSLError", "error">> }

\* a retry loop that goes round once more
AfterFailureOneMore(attempt) == IF attempt < max_retries THEN "retry" ELSE "return"

\* if attempt < max_retries - 1: sleep and retry; else: record and return
AfterFailure(attempt) == IF attempt < max_retries - 1 THEN "retry" ELSE "return"

\* ------------------------------------------------------ state
VARIABLES
  credentials,  \* the attributes of the process-wide credentials_manager
  segments,     \* the segment sequence handed to the entry point
  entry,        \* the function the caller invoked
  pc,           \* Idle, TryingStrategy, Calling, Accepted, Exhausted, Returned, Raised
  strategy,     \* the ladder position 1..3 (0: no ladder)
  translator,   \* the TranslationAPI object of the attempt under way
  sent,         \* the Text of the last request
  inFlight,     \* call_url invocations that have not returned
  calls,        \* call_url invocations so far
  attempts,     \* the strategy attempts finished so far, in order
  candidate,    \* what the last finished strategy function returned
  answer,       \* what the last call_url returned
  result,       \* what the entry point returned
  echoed,       \* every call_url so far returned its own request text
  runs,         \* the concurrent tool invocations: their own credentials and progress
  split,        \* a call of smart_split_translation: its arguments, loop index and cursor
  snap,         \* the last call of find_best_split_position: its arguments and return value
  ws,           \* the WebSocketApp of speech_to_text: its socket, result_instance and frames sent
  thread,       \* the sender thread started by on_open: its position and locals
  tool          \* a call of xunfei_mandarin_asr_translate: its position and the tuple returned

vars ==
  <<credentials, segments, entry, pc, strategy, translator, sent, inFlight, calls,
    attempts, candidate, answer, result, echoed, runs, split, snap, ws, thread, tool>>

\* the variables of translate_text_robust and its strategies
vars_main ==
  <<credentials, segments, entry, pc, strategy, translator, sent, inFlight, calls,
    attempts, candidate, answer, result, echoed>>

\* the tool invocations that may run at the same time
Invocations == {1, 2}

\* an invocation that has not started
IdleRun ==
  [pc |-> "Idle", own |-> UnsetCredentials, strategy |-> 0, translator |-> NoTranslator,
   result |-> NotReturned]

\* no call of smart_split_translation yet
NoSplit ==
  [pc |-> "Idle", segs |-> <<>>, full |-> <<>>, i |-> 0, current_pos |-> 0,
   slices |-> <<>>, acc |-> <<>>]

\* no call of find_best_split_position yet
NoSnap == [pc |-> "Idle", text |-> <<>>, target_pos |-> 0, min_pos |-> 0, ret |-> 0]

EntryPoints ==
  { "translate_text_robust", "translate_text", "translate_text_with_enhanced_markers",
    "translate_and_smart_split" }

NoAnswer == [raised |-> FALSE, error |-> FALSE, isNone |-> TRUE, text |-> <<>>]

Init ==
  /\ credentials = UnsetCredentials
  /\ segments \in SegmentInputs
  /\ entry = "none"
  /\ pc = "Idle"
  /\ strategy = 0
  /\ translator = NoTranslator
  /\ sent = <<>>
  /\ inFlight = 0
  /\ calls = 0
  /\ attempts = <<>>
  /\ candidate = NotReturned
  /\ answer = NoAnswer
  /\ result = NotReturned
  /\ echoed = TRUE
  /\ runs = [k \in Invocations |-> IdleRun]
  /\ split = NoSplit
  /\ snap = NoSnap
  /\ ws = NoSocket
  /\ thread = NoThread
  /\ tool = NoTool

\* the strategy function that runs for entry point e at ladder position i
FunctionAt(e, i) ==
  IF e # "translate_text_robust" THEN e
  ELSE IF i = 0 THEN "single"
  ELSE strategies[i]

\* the strategy function under way
Running == FunctionAt(entry, strategy)

\* the Text each function gives its translator
RequestText(fn, segs) ==
  IF fn = "single" THEN segs[1].text
  ELSE IF fn = "translate_text" THEN MarkedText(segs)
  ELSE IF fn = "translate_text_with_enhanced_markers" THEN EnhancedMarkedText(segs)
  ELSE CombinedText(segs)

\* what each function returns once its translator call returned `out`
StrategyResult(fn, segs, out) ==
  IF fn = "single" THEN SingleSegment(segs, out)
  ELSE IF fn = "translate_text" THEN translate_text(segs, out)
  ELSE IF fn = "translate_text_with_enhanced_markers"
       THEN translate_text_with_enhanced_markers(segs, out)
  ELSE translate_and_smart_split(segs, out)

\* the body of the for loop of translate_text_robust for strategy i, whose
\* function returned `res`, and the fallback after the loop
LadderStep(i, res, segs) ==
  IF res.kind = "Raise" /\ ~Caught(i)
  THEN [outcome |-> "raised", pc |-> "Raised", strategy |-> i, result |-> NotReturned]
  ELSE IF res.kind # "Raise" /\ Accepts(res, segs)
  THEN [outcome |-> "accepted", pc |-> "Accepted", strategy |-> i, result |-> res]
  ELSE LET raised == res.kind = "Raise"
           next == IF raised THEN AfterRaise(i) ELSE NextStrategy(i)
       IN  IF next <= Len(strategies)
           THEN [outcome |-> IF raised THEN "raised" ELSE "rejected",
                 pc |-> "TryingStrategy", strategy |-> next, result |-> NotReturned]
           ELSE [outcome |-> IF raised THEN "raised" ELSE "rejected",
                 pc |-> "Exhausted", strategy |-> i,
                 result |-> MappingResult(IdentityMapping(segs, <<>>))]

\* a function called directly, or the single-segment path, hands its result
\* or its exception to the caller
DirectStep(i, res) ==
  IF res.kind = "Raise"
  THEN [outcome |-> "raised", pc |-> "Raised", strategy |-> i, result |-> NotReturned]
  ELSE [outcome |-> "returned", pc |-> "Returned", strategy |-> i, result |-> res]

\* what follows the return of call_url for entry point e at ladder position i
FinishAttempt(e, i, segs, res) ==
  IF e = "translate_text_robust" /\ i > 0 THEN LadderStep(i, res, segs)
  ELSE DirectStep(i, res)

\* the position at which translate_text_robust starts on segs
FirstStrategy(e, segs) == IF e = "translate_text_robust" /\ Len(segs) > 1 THEN 1 ELSE 0

\* CredentialsManager.set_credentials, reached through the module's set_credentials
set_credentials(c) ==
  /\ pc = "Idle"
  /\ credentials' = c
  /\ UNCHANGED <<segments, entry, pc, strategy, translator, sent, inFlight, calls,
                 attempts, candidate, answer, result, echoed, runs, split, snap, ws, thread, tool>>

\* the caller enters one of the functions; the `if not segments` and
\* `len(segments) == 1` tests of the entry
Invoke(e) ==
  /\ pc = "Idle"
  /\ entry' = e
  /\ IF ReturnsNoneAtEntry(e, segments)
     THEN /\ pc' = "Returned"
          /\ strategy' = 0
          /\ result' = NoneResult
     ELSE /\ pc' = "TryingStrategy"
          /\ strategy' = FirstStrategy(e, segments)
          /\ result' = result
  /\ UNCHANGED <<credentials, segments, translator, sent, inFlight, calls, attempts,
                 candidate, answer, echoed, runs, split, snap, ws, thread, tool>>

\* the function under way builds its text and its TranslationAPI and enters call_url
BeginAttempt ==
  /\ pc = "TryingStrategy"
  /\ translator' = TranslationAPI(credentials)
  /\ sent' = RequestText(Running, segments)
  /\ calls' = calls + 1
  /\ inFlight' = inFlight + 1
  /\ answer' = NoAnswer
  /\ pc' = "Calling"
  /\ UNCHANGED <<credentials, segments, entry, strategy, attempts, candidate, result,
                 echoed, runs, split, snap, ws, thread, tool>>

\* call_url returns or raises; the function under way finishes, and the ladder
\* of translate_text_robust accepts its result, moves on, or is exhausted
EndAttempt ==
  /\ pc = "Calling"
  /\ \E net \in NetResponses(translator, segments, sent) :
     \E out \in {call_url(translator, net)} :
     \E res \in {StrategyResult(Running, segments, out)} :
     \E fin \in {FinishAttempt(entry, strategy, segments, res)} :
       /\ answer' = out
       /\ candidate' = res
       /\ inFlight' = inFlight - 1
       /\ echoed' = (echoed /\ ~out.raised /\ ~out.error /\ ~out.isNone /\ out.text = sent)
       /\ attempts' = Append(attempts, [fn |-> Running, outcome |-> fin.outcome])
       /\ pc' = fin.pc
       /\ strategy' = fin.strategy
       /\ result' = IF fin.result = NotReturned THEN result ELSE fin.result
  /\ UNCHANGED <<credentials, segments, entry, translator, sent, calls, runs, split, snap, ws, thread, tool>>

\* a direct call of smart_split_translation on an already translated string
SmartSplit ==
  /\ pc = "Idle"
  /\ entry' = "smart_split_translation"
  /\ \E full \in Answers(segments, <<>>) : candidate' = SmartSplitResult(segments, full)
  /\ result' = candidate'
  /\ pc' = IF candidate'.kind = "Raise" THEN "Raised" ELSE "Returned"
  /\ UNCHANGED <<credentials, segments, strategy, translator, sent, inFlight, calls,
                 attempts, answer, echoed, runs, split, snap, ws, thread, tool>>

Next ==
  \/ \E c \in CredentialInputs : set_credentials(c)
  \/ \E e \in EntryPoints : Invoke(e)
  \/ BeginAttempt
  \/ EndAttempt
  \/ SmartSplit

Spec == Init /\ [][Next]_vars

\* the code is synchronous and call_url posts with a timeout: a function that
\* was entered makes its call, and the call returns or fails
FairSpec == Spec /\ WF_vars(BeginAttempt) /\ WF_vars(EndAttempt)

\* ------------------------------------------- concurrent tool invocations
\* the vendor of the concurrent runs: it answers every request it accepts
\* with the per-symbol translation of the request text
VendorResponse(text) == [kind |-> "ok", dst |-> TranslateSymbols(text)]

\* one pass of invocation k through call_url and the ladder, at position i,
\* with the translator object `api`
RunStep(api, i, segs) ==
  FinishAttempt("translate_text_robust", i, segs,
    StrategyResult(FunctionAt("translate_text_robust", i), segs,
      call_url(api, VendorResponse(RequestText(FunctionAt("translate_text_robust", i), segs)))))

\* what translate_text_robust returns on segs when every translator object is
\* built from the credentials `own`, from ladder position i on
RECURSIVE RunsAlone(_, _, _)
RunsAlone(own, segs, i) ==
  LET fin == RunStep(TranslationAPI(own), i, segs)
  IN  IF fin.pc = "TryingStrategy" THEN RunsAlone(own, segs, fin.strategy) ELSE fin.result

\* XunfeiMandarinAsrTranslateTool._invoke of invocation k hands its runtime
\* credentials to the shared manager
ToolSetCredentials(k) ==
  /\ runs[k].pc = "Start"
  /\ credentials' = runs[k].own
  /\ runs' = [runs EXCEPT ![k].pc = "Recognizing"]
  /\ UNCHANGED <<segments, entry, pc, strategy, translator, sent, inFlight, calls,
                 attempts, candidate, answer, result, echoed, split, snap, ws, thread, tool>>

\* speech_to_text of invocation k returns the segments, and
\* xunfei_mandarin_asr_translate enters translate_text_robust
Recognize(k) ==
  /\ runs[k].pc = "Recognizing"
  /\ runs' = [runs EXCEPT ![k].pc = "TryingStrategy",
                          ![k].strategy = FirstStrategy("translate_text_robust", segments)]
  /\ UNCHANGED <<vars_main, split, snap, ws, thread, tool>>

\* invocation k builds the TranslationAPI of its next attempt from the shared
\* manager and enters call_url
RunBegin(k) ==
  /\ runs[k].pc = "TryingStrategy"
  /\ runs' = [runs EXCEPT ![k].pc = "Calling",
                          ![k].translator = TranslationAPI(credentials)]
  /\ UNCHANGED <<vars_main, split, snap, ws, thread, tool>>

\* call_url of invocation k returns and its ladder goes on
RunEnd(k) ==
  /\ runs[k].pc = "Calling"
  /\ \E fin \in {RunStep(runs[k].translator, runs[k].strategy, segments)} :
       runs' = [runs EXCEPT ![k].pc = fin.pc,
                            ![k].strategy = fin.strategy,
                            ![k].result = fin.result]
  /\ UNCHANGED <<vars_main, split, snap, ws, thread, tool>>

ConcInit ==
  /\ credentials = UnsetCredentials
  /\ segments \in SegmentInputs \ {<<>>}
  /\ entry = "none"
  /\ pc = "Idle"
  /\ strategy = 0
  /\ translator = NoTranslator
  /\ sent = <<>>
  /\ inFlight = 0
  /\ calls = 0
  /\ attempts = <<>>
  /\ candidate = NotReturned
  /\ answer = NoAnswer
  /\ result = NotReturned
  /\ echoed = TRUE
  /\ runs \in [Invocations -> {[IdleRun EXCEPT !.pc = "Start", !.own = c] : c \in CredentialInputs}]
  /\ split = NoSplit
  /\ snap = NoSnap
  /\ ws = NoSocket
  /\ thread = NoThread
  /\ tool = NoTool

ConcNext ==
  \E k \in Invocations :
    \/ ToolSetCredentials(k)
    \/ Recognize(k)
    \/ RunBegin(k)
    \/ RunEnd(k)

SpecConc == ConcInit /\ [][ConcNext]_vars

\* ---------------------------------- smart_split_translation, step by step
\* the symbols of the translated strings handed to smart_split_translation
SplitSymbols == {"x", "FW_COMMA", " "}

\* the translated strings, and the texts handed to find_best_split_position
SplitStrings == UNION { [1..n -> SplitSymbols] : n \in 0..MaxLen }

\* segment texts by length, the empty text included
SplitTexts == { <<>>, <<"a">>, <<"a", "a", "a">> }

\* the segment sequences handed to smart_split_translation
SplitSegmentInputs ==
  UNION { { [k \in 1..n |-> [id |-> k - 1, text |-> t[k]]] : t \in [1..n -> SplitTexts] }
          : n \in 0..MaxSplitSegs }

\* a text of n symbols c
Repeat(c, n) == [k \in 1..n |-> c]

\* translated strings of LongLen symbols: no boundary character, or one
LongStrings ==
  {Repeat("x", LongLen)}
    \cup { [k \in 1..LongLen |-> IF k = p THEN "FW_COMMA" ELSE "x"] : p \in 1..LongLen }

\* two segments whose texts have LongLen symbols together
LongSegmentInputs ==
  { << [id |-> 0, text |-> Repeat("a", l)], [id |-> 1, text |-> Repeat("a", LongLen - l)] >>
      : l \in 1..(LongLen - 1) }

\* the arguments of the calls of smart_split_translation
SplitCalls ==
  (SplitSegmentInputs \X SplitStrings) \cup (LongSegmentInputs \X LongStrings)

\* the offsets handed to find_best_split_position
SplitOffsets == 0..(MaxLen + 1)

\* smart_split_translation is called: total_original_chars and the choice of
\* the loop; with no segment the average length divides by zero
SplitCall ==
  /\ split.pc = "Idle"
  /\ snap.pc = "Idle"
  /\ \E call \in SplitCalls :
       split' = [NoSplit EXCEPT !.segs = call[1], !.full = call[2],
                                !.pc = IF TotalChars(call[1]) # 0 THEN "Ratio"
                                       ELSE IF call[1] = <<>> THEN "Raised"
                                       ELSE "Even"]
  /\ UNCHANGED <<vars_main, runs, snap, ws, thread, tool>>

\* a degenerate split whose last slice is as long as the others
EvenSliceNoRemainder(segs, full, i) ==
  <<i * (Len(full) \div Len(segs)), (i + 1) * (Len(full) \div Len(segs))>>

\* start_pos and end_pos of the i-th (0-based) slice of the
\* total_original_chars == 0 branch
EvenSlice(segs, full, i) ==
  LET avg_length == Len(full) \div Len(segs)
  IN  <<i * avg_length,
        IF i < Len(segs) - 1 THEN (i + 1) * avg_length ELSE Len(full)>>

\* one iteration of the loop of the total_original_chars == 0 branch
EvenStep ==
  /\ split.pc = "Even"
  /\ split.i < Len(split.segs)
  /\ LET start_pos == EvenSlice(split.segs, split.full, split.i)[1]
         end_pos == EvenSlice(split.segs, split.full, split.i)[2]
     IN  split' = [split EXCEPT
                     !.i = split.i + 1,
                     !.slices = Append(split.slices, <<start_pos, end_pos>>),
                     !.acc = DictSet(split.acc, split.segs[split.i + 1].id,
                                     Strip(Slice(split.full, start_pos, end_pos)))]
  /\ UNCHANGED <<vars_main, runs, snap, ws, thread, tool>>

\* a proportional loop that keeps an empty slice
SegmentValueNoFallback(segment_translation, seg) == segment_translation

\* segment_translation if segment_translation else segment["text"]
SegmentValue(segment_translation, seg) ==
  IF segment_translation # <<>> THEN segment_translation ELSE seg.text

\* one iteration of the proportional loop for a segment that is not the last:
\* the target, the call of find_best_split_position, the slice, the cursor
RatioStep ==
  /\ split.pc = "Ratio"
  /\ split.i < Len(split.segs) - 1
  /\ LET seg == split.segs[split.i + 1]
         target_pos ==
           split.current_pos + SegmentLength(split.full, seg.text, TotalChars(split.segs))
         best_split_pos == find_best_split_position(split.full, target_pos, split.current_pos)
         segment_translation == Strip(Slice(split.full, split.current_pos, best_split_pos))
     IN  /\ snap' = [pc |-> "Returned", text |-> split.full, target_pos |-> target_pos,
                     min_pos |-> split.current_pos, ret |-> best_split_pos]
         /\ split' = [split EXCEPT
                        !.i = split.i + 1,
                        !.current_pos = best_split_pos,
                        !.slices = Append(split.slices, <<split.current_pos, best_split_pos>>),
                        !.acc = DictSet(split.acc, seg.id,
                                        SegmentValue(segment_translation, seg))]
  /\ UNCHANGED <<vars_main, runs, ws, thread, tool>>

\* the iteration of the proportional loop for the last segment
RatioLast ==
  /\ split.pc = "Ratio"
  /\ split.i = Len(split.segs) - 1
  /\ LET seg == split.segs[split.i + 1]
         segment_translation == Strip(Slice(split.full, split.current_pos, Len(split.full)))
     IN  split' = [split EXCEPT
                     !.i = split.i + 1,
                     !.slices = Append(split.slices, <<split.current_pos, Len(split.full)>>),
                     !.acc = DictSet(split.acc, seg.id,
                                     SegmentValue(segment_translation, seg))]
  /\ UNCHANGED <<vars_main, runs, snap, ws, thread, tool>>

\* the loop is over: return segment_translations
SplitReturn ==
  /\ split.pc \in {"Even", "Ratio"}
  /\ split.i = Len(split.segs)
  /\ split' = [split EXCEPT !.pc = "Returned"]
  /\ UNCHANGED <<vars_main, runs, snap, ws, thread, tool>>

\* a direct call of find_best_split_position
SnapCall ==
  /\ split.pc = "Idle"
  /\ snap.pc = "Idle"
  /\ \E text \in SplitStrings : \E target_pos \in SplitOffsets : \E min_pos \in SplitOffsets :
       snap' = [pc |-> "Returned", text |-> text, target_pos |-> target_pos,
                min_pos |-> min_pos,
                ret |-> find_best_split_position(text, target_pos, min_pos)]
  /\ UNCHANGED <<vars_main, runs, split, ws, thread, tool>>

SplitInit ==
  /\ credentials = UnsetCredentials
  /\ segments = <<>>
  /\ entry = "none"
  /\ pc = "Idle"
  /\ strategy = 0
  /\ translator = NoTranslator
  /\ sent = <<>>
  /\ inFlight = 0
  /\ calls = 0
  /\ attempts = <<>>
  /\ candidate = NotReturned
  /\ answer = NoAnswer
  /\ result = NotReturned
  /\ echoed = TRUE
  /\ runs = [k \in Invocations |-> IdleRun]
  /\ split = NoSplit
  /\ snap = NoSnap
  /\ ws = NoSocket
  /\ thread = NoThread
  /\ tool = NoTool

SplitNext ==
  \/ SplitCall
  \/ EvenStep
  \/ RatioStep
  \/ RatioLast
  \/ SplitReturn
  \/ SnapCall

SpecSplit == SplitInit /\ [][SplitNext]_vars

\* ------------------------------------------------------ speech_to_text
\* speech_to_text raises without credentials; with them it creates the result
\* and the WebSocketApp, run_forever connects, and on_open starts the sender
\* thread
speech_to_text(AudioFile) ==
  /\ thread.pc = "Idle"
  /\ IF ~is_configured(credentials)
     THEN /\ thread' = [NoThread EXCEPT !.pc = "NotStarted"]
          /\ UNCHANGED ws
     ELSE /\ thread' = [NoThread EXCEPT !.pc = "Started", !.url = AudioFile.url,
                                        !.exists = AudioFile.exists, !.size = AudioFile.size]
          /\ ws' = [NoSocket EXCEPT !.sock = TRUE]
  /\ UNCHANGED <<vars_main, runs, split, snap, tool>>

\* run: a URL is downloaded first, a local path must exist
Locate ==
  /\ thread.pc = "Started"
  /\ IF thread.url
     THEN thread' = [thread EXCEPT !.pc = "Download"] /\ UNCHANGED ws
     ELSE IF ~thread.exists
     THEN /\ ws' = [ws EXCEPT !.result_instance.error_message = "missing"]
          /\ thread' = [thread EXCEPT !.pc = "Done"]
     ELSE thread' = [thread EXCEPT !.pc = "Check"] /\ UNCHANGED ws
  /\ UNCHANGED <<vars_main, runs, split, snap, tool>>

\* run: one iteration of the retry loop
Download ==
  /\ thread.pc = "Download"
  /\ \E outcome \in DownloadOutcomes :
       LET made == [thread EXCEPT !.tried = @ + 1, !.gets = @ + Len(outcome)]
       IN  IF outcome[Len(outcome)] = "ok"
           THEN /\ thread' = [made EXCEPT !.downloaded = TRUE, !.pc = "Check"]
                /\ UNCHANGED ws
           ELSE IF AfterFailure(thread.attempt) = "retry"
           THEN /\ thread' = [made EXCEPT !.attempt = @ + 1]
                /\ UNCHANGED ws
           ELSE /\ thread' = [made EXCEPT !.pc = "Done"]
                /\ ws' = [ws EXCEPT !.result_instance.error_message = "download"]
  /\ UNCHANGED <<vars_main, runs, split, snap, tool>>

\* run: the top of the frame loop: the socket test, fp.read and the encoding
CheckSocket ==
  /\ thread.pc = "Check"
  /\ IF ~ws.sock
     THEN thread' = [thread EXCEPT !.pc = "Done"]
     ELSE LET buf == Min({frameSize, thread.size - thread.pos})
              audio == B64Len(buf)
          IN  thread' = [thread EXCEPT !.pos = @ + buf,
                                       !.audio = audio,
                                       !.status = IF audio = 0 THEN STATUS_LAST_FRAME ELSE @,
                                       !.pc = "Send"]
  /\ UNCHANGED <<vars_main, runs, split, snap, ws, tool>>

\* run: ws.send of the frame for the current status
SendFrame ==
  /\ thread.pc = "Send"
  /\ \E sends \in (IF ws.sock THEN BOOLEAN ELSE {FALSE}) :
       IF sends
       THEN /\ ws' = [ws EXCEPT !.frames = Append(@, Frame(thread.status, thread.audio))]
            /\ thread' = IF thread.status = STATUS_FIRST_FRAME
                         THEN [thread EXCEPT !.status = STATUS_CONTINUE_FRAME, !.pc = "Check"]
                         ELSE IF thread.status = STATUS_CONTINUE_FRAME
                         THEN [thread EXCEPT !.pc = "Check"]
                         ELSE [thread EXCEPT !.pc = "Done"]
       ELSE /\ ws' = [ws EXCEPT !.result_instance.error_message = "send"]
            /\ thread' = [thread EXCEPT !.pc = "Done"]
  /\ UNCHANGED <<vars_main, runs, split, snap, tool>>

\* on_message(ws, message): what it leaves in ws
Handled(message) ==
  IF message.code # 0
  THEN [ws EXCEPT !.result_instance.error_message = "service",
                  !.sock = FALSE,
                  !.handled = @ + 1]
  ELSE [ws EXCEPT !.result_instance =
                    IF message.has_payload THEN OnPayload(@, message.text_ws) ELSE @,
                  !.sock = IF message.status = 2 THEN FALSE ELSE @,
                  !.handled = @ + 1]

\* the callback for one message of the service
on_message ==
  /\ ws.sock
  /\ ws.handled < MaxMessages
  /\ \E message \in Messages : ws' = Handled(message)
  /\ UNCHANGED <<vars_main, runs, split, snap, thread, tool>>

\* the callback for one message that carries no payload: an error of the
\* service, or a status alone
on_message_without_payload ==
  /\ ws.sock
  /\ ws.handled < MaxMessages
  /\ \E message \in {m \in Messages : ~m.has_payload} : ws' = Handled(message)
  /\ UNCHANGED <<vars_main, runs, split, snap, thread, tool>>

\* the callback for a connection error, after which the connection is gone
on_error ==
  /\ ws.sock
  /\ ws' = [ws EXCEPT !.result_instance.error_message = "socket", !.sock = FALSE]
  /\ UNCHANGED <<vars_main, runs, split, snap, thread, tool>>

\* the callback for a connection closed by the peer
on_close ==
  /\ ws.sock
  /\ ws' = [ws EXCEPT !.sock = FALSE]
  /\ UNCHANGED <<vars_main, runs, split, snap, thread, tool>>

AsrInit ==
  /\ credentials = UnsetCredentials
  /\ segments = <<>>
  /\ entry = "none"
  /\ pc = "Idle"
  /\ strategy = 0
  /\ translator = NoTranslator
  /\ sent = <<>>
  /\ inFlight = 0
  /\ calls = 0
  /\ attempts = <<>>
  /\ candidate = NotReturned
  /\ answer = NoAnswer
  /\ result = NotReturned
  /\ echoed = TRUE
  /\ runs = [k \in Invocations |-> IdleRun]
  /\ split = NoSplit
  /\ snap = NoSnap
  /\ ws = NoSocket
  /\ thread = NoThread
  /\ tool = NoTool

\* the callbacks of one recognition: the words of the messages reach
\* result.word_details and result.semantic_segments, which the sender thread
\* never reads or writes
AsrNext ==
  \/ \E c \in CredentialInputs : set_credentials(c)
  \/ \E AudioFile \in AudioFiles : speech_to_text(AudioFile)
  \/ on_message
  \/ on_error
  \/ on_close

SpecAsr == AsrInit /\ [][AsrNext]_vars

\* the sender thread of one recognition, with the callbacks that close the
\* socket or set result.error_message while it runs
SendNext ==
  \/ \E c \in CredentialInputs : set_credentials(c)
  \/ \E AudioFile \in AudioFiles : speech_to_text(AudioFile)
  \/ Locate
  \/ Download
  \/ CheckSocket
  \/ SendFrame
  \/ on_message_without_payload
  \/ on_error
  \/ on_close

SpecSend == AsrInit /\ [][SendNext]_vars

\* ------------------------------------------------------ the tool
\* d.get(k, default)
DictGet(d, k, default) == IF k \in DOMAIN d THEN d[k] ELSE default

\* what translate_text_robust returned is a mapping that is not empty
TruthyMapping(res) == res.kind = "Mapping" /\ res.map # <<>>

\* a full translation made of the recognized text whatever was translated
FullTranslationOfSource(res, r) == r.recognized_text

\* full_translation of xunfei_mandarin_asr_translate
FullTranslation(res, r) ==
  IF TruthyMapping(res)
  THEN Join([k \in 1..Len(r.semantic_segments) |->
               DictGet(res.map, r.semantic_segments[k].id, r.semantic_segments[k].text)])
  ELSE r.recognized_text

\* segment_translations as handed to create_json_result
SegmentTranslations(res, r) ==
  IF TruthyMapping(res) THEN res.map ELSE IdentityMapping(r.semantic_segments, <<>>)

\* words of create_json_result for one segment
SentenceWords(segment, word_details) ==
  IF word_details # <<>> /\ segment.word_indices[1] < Len(word_details)
  THEN Slice(word_details, segment.word_indices[1], segment.word_indices[2] + 1)
  ELSE <<>>

\* language of create_json_result: the most frequent language of the words
\* that is not "", the one met first among equals
SentenceLanguage(words) ==
  LET langs == {words[k].language : k \in 1..Len(words)} \ {""}
      n(l) == Cardinality({k \in 1..Len(words) : words[k].language = l})
      first(l) == Min({k \in 1..Len(words) : words[k].language = l})
      best == {l \in langs : \A o \in langs : n(l) >= n(o)}
  IN  IF langs = {} THEN ""
      ELSE CHOOSE l \in best : \A o \in best : first(l) <= first(o)

\* sentence_item of create_json_result for the segment at position i (from 0)
SentenceItem(i, segment, word_details, segment_translations) ==
  [begin_time |-> segment.begin_time,
   end_time |-> segment.end_time,
   source_text |-> segment.text,
   text |-> DictGet(segment_translations, segment.id, <<>>),
   sentence_id |-> i + 1,
   words |-> SentenceWords(segment, word_details),
   language |-> SentenceLanguage(SentenceWords(segment, word_details))]

\* the end_time of the last entry that has one above 0, or 0
LastEndTime(entries) ==
  LET timed == {k \in 1..Len(entries) : entries[k].end_time > 0}
  IN  IF timed = {} THEN 0 ELSE entries[Max(timed)].end_time

\* total_duration of create_json_result
TotalDuration(recognized_text, segs, word_details) ==
  IF LastEndTime(word_details) # 0 THEN LastEndTime(word_details)
  ELSE IF LastEndTime(segs) # 0 THEN LastEndTime(segs)
  ELSE Len(recognized_text) * 200

create_json_result(audio_file, recognized_text, full_translation, segs, word_details, segment_translations) ==
  [file_url |-> audio_file,
   properties |->
     [original_duration_in_milliseconds |-> TotalDuration(recognized_text, segs, word_details)],
   transcripts |->
     <<[content_duration_in_milliseconds |-> TotalDuration(recognized_text, segs, word_details),
        source_text |-> recognized_text,
        text |-> full_translation,
        language |-> {word_details[k].language : k \in 1..Len(word_details)} \ {""},
        sentences |-> [k \in 1..Len(segs) |->
                         SentenceItem(k - 1, segs[k], word_details, segment_translations)]]>>]

\* the audio_file argument of the call
AudioFileOf(t) == [url |-> t.url, exists |-> t.exists, size |-> t.size]

\* the audio files of the tool's calls: the frames of the file never reach
\* what the tool returns
ToolAudioFiles == {f \in AudioFiles : f.url /\ f.size = frameSize}

\* _invoke hands the credentials over before it calls the pipeline
ToolSetsCredentials(c) ==
  /\ thread.pc = "Idle"
  /\ set_credentials(c)

\* a callback of the recognition the tool waits for
ToolReceives ==
  /\ ws.handled < MaxToolMessages
  /\ on_message

\* a speech_to_text that raises only for missing credentials
RaisesOnlyWithoutCredentials(t, r) == t.pc = "NotStarted"

\* speech_to_text raises: without credentials, or with result.error_message set
RecognitionRaises(t, r) == t.pc = "NotStarted" \/ r.error_message # ""

\* speech_to_text returns the result, or raises with result.error_message;
\* the tool returns its error tuple or hands the segments to translate_text_robust
Recognized ==
  /\ tool.pc = "Idle"
  /\ thread.pc # "Idle"
  /\ ~ws.sock
  /\ IF RecognitionRaises(thread, ws.result_instance)
     THEN /\ tool' = [pc |-> "Returned", returned |-> ReturnTuple(<<>>, <<>>, "recognition")]
          /\ UNCHANGED segments
     ELSE /\ tool' = [tool EXCEPT !.pc = "Translating"]
          /\ segments' = ws.result_instance.semantic_segments
  /\ UNCHANGED <<credentials, entry, pc, strategy, translator, sent, inFlight, calls,
                 attempts, candidate, answer, result, echoed, runs, split, snap, ws, thread>>

\* the tool enters translate_text_robust
Translate ==
  /\ tool.pc = "Translating"
  /\ Invoke("translate_text_robust")

\* translate_text_robust returned or raised: the tool builds what it returns
ToolReturns ==
  /\ tool.pc = "Translating"
  /\ pc \in {"Returned", "Accepted", "Exhausted", "Raised"}
  /\ tool' =
       IF pc = "Raised"
       THEN [pc |-> "Returned", returned |-> ReturnTuple(<<>>, <<>>, "translation")]
       ELSE LET r == ws.result_instance
                full_translation == FullTranslation(result, r)
            IN  [pc |-> "Returned",
                 returned |->
                   ReturnTuple(full_translation,
                            create_json_result(AudioFileOf(thread), r.recognized_text,
                                               full_translation, r.semantic_segments,
                                               r.word_details, SegmentTranslations(result, r)),
                            "")]
  /\ UNCHANGED <<vars_main, runs, split, snap, ws, thread>>

ToolNext ==
  \/ \E c \in CredentialInputs : ToolSetsCredentials(c)
  \/ \E AudioFile \in ToolAudioFiles : speech_to_text(AudioFile)
  \/ ToolReceives
  \/ on_error
  \/ on_close
  \/ Recognized
  \/ Translate
  \/ BeginAttempt
  \/ EndAttempt
  \/ ToolReturns

SpecTool == AsrInit /\ [][ToolNext]_vars

\* ------------------------------------------------------ claims
\* the ids of a segment sequence
Ids(segs) == {segs[k].id : k \in 1..Len(segs)}

\* translate_text_robust was invoked on more than one segment
InLadder == entry = "translate_text_robust" /\ Len(segments) > 1

\* translate_text_robust has returned
RobustReturned ==
  entry = "translate_text_robust" /\ pc \in {"Accepted", "Exhausted", "Returned"}

\* m maps every segment id to that segment's own text, and nothing else
IsIdentity(m, segs) ==
  /\ DOMAIN m = Ids(segs)
  /\ \A k \in 1..Len(segs) : m[segs[k].id] = segs[k].text

\* C1: Totality.  For a non-empty segment sequence, whatever the translator
\* did, the mapping translate_text_robust returns has exactly the input ids
\* as keys, and so has every mapping returned by translate_text,
\* translate_text_with_enhanced_markers or smart_split_translation.
C1_Totality ==
  segments # <<>> =>
    /\ RobustReturned => (result.kind = "Mapping" /\ DOMAIN result.map = Ids(segments))
    /\ candidate.kind = "Mapping" => DOMAIN candidate.map = Ids(segments)
    /\ (pc = "Returned" /\ result.kind = "Mapping") => DOMAIN result.map = Ids(segments)

\* C1 witness: the ladder accepted the Enhanced-Marker candidate of two
\* segments after the vendor lost a marker pair.
C1_Witness ==
  /\ InLadder /\ pc = "Accepted" /\ strategy = 2
  /\ DOMAIN result.map = {0, 1}
  /\ result.map[1] = segments[2].text

\* C2: with more than one segment, when every strategy of the ladder was
\* rejected or raised, translate_text_robust returns the identity mapping and
\* no exception reaches its caller.
C2_IdentityFallback ==
  InLadder =>
    /\ pc # "Raised"
    /\ ( /\ Len(attempts) = 3
         /\ \A k \in 1..3 : attempts[k].outcome \in {"rejected", "raised"} )
       => (pc = "Exhausted" /\ result.kind = "Mapping" /\ IsIdentity(result.map, segments))

\* C2 witness: a ladder in which a strategy raised and another was rejected
\* ended with the identity mapping.
C2_Witness ==
  /\ InLadder /\ pc = "Exhausted" /\ Len(attempts) = 3
  /\ \E k \in 1..3 : attempts[k].outcome = "raised"
  /\ \E k \in 1..3 : attempts[k].outcome = "rejected"
  /\ IsIdentity(result.map, segments)

\* C3: with more than one segment the strategies are attempted in the order
\* Marker-Split, Enhanced-Marker, Translate-whole-then-Smart-Split; the
\* mapping returned is the candidate of the first accepted strategy, and after
\* an acceptance no strategy is attempted and no translator call is made.
C3_LadderOrder ==
  InLadder =>
    /\ Len(attempts) <= 3
    /\ \A k \in 1..Len(attempts) :
         /\ attempts[k].fn = <<"translate_text", "translate_text_with_enhanced_markers",
                               "translate_and_smart_split">>[k]
         /\ attempts[k].outcome = "accepted" =>
              /\ k = Len(attempts)
              /\ pc = "Accepted"
              /\ result = candidate
              /\ calls = k
              /\ inFlight = 0
    /\ pc \in {"TryingStrategy", "Calling"} => strategy = Len(attempts) + 1
    /\ pc = "Accepted" => attempts[Len(attempts)].outcome = "accepted"

\* C3 witness: Marker-Split was rejected and Enhanced-Marker accepted, after
\* two translator calls.
C3_Witness ==
  /\ InLadder /\ pc = "Accepted" /\ Len(attempts) = 2 /\ calls = 2
  /\ attempts[1].outcome = "rejected"

\* C4: the ladder accepts a candidate mapping if and only if it is total over
\* the segment ids and at least one segment's translation differs from that
\* segment's text; a partly unchanged candidate is accepted, a wholly
\* unchanged one is rejected.
C4_Acceptance ==
  (InLadder /\ attempts # <<>> /\ candidate.kind = "Mapping") =>
    ( attempts[Len(attempts)].outcome = "accepted"
      <=> ( /\ DOMAIN candidate.map = Ids(segments)
            /\ \E k \in 1..Len(segments) :
                 candidate.map[segments[k].id] # segments[k].text ) )

\* C4 witness: an accepted candidate that leaves one segment unchanged and
\* changes another.
C4_Witness ==
  /\ InLadder /\ pc = "Accepted"
  /\ \E k \in 1..Len(segments) : result.map[segments[k].id] = segments[k].text
  /\ \E k \in 1..Len(segments) : result.map[segments[k].id] # segments[k].text

\* C5: a strategy that raises aborts only its own attempt: the next strategy
\* of the ladder is attempted (or, after the last one, the ladder ends with
\* its fallback), and the exception never leaves translate_text_robust.
C5_RaiseIsRejection ==
  InLadder =>
    /\ pc # "Raised"
    /\ \A k \in 1..Len(attempts) :
         attempts[k].outcome = "raised" =>
           IF k < 3
           THEN \/ Len(attempts) > k
                \/ (pc \in {"TryingStrategy", "Calling"} /\ strategy = k + 1)
           ELSE pc = "Exhausted"

\* C5 witness: Marker-Split raised and a later strategy was accepted.
C5_Witness ==
  /\ InLadder /\ pc = "Accepted" /\ Len(attempts) >= 2
  /\ attempts[1].outcome = "raised"

\* C6: with exactly one segment translate_text_robust skips the ladder: one
\* translator call on the segment's raw text; {id: translation} when the call
\* succeeded and {id: original text} on any failure; no exception escapes.
C6_SingleSegment ==
  (entry = "translate_text_robust" /\ Len(segments) = 1) =>
    /\ pc # "Raised"
    /\ strategy = 0
    /\ pc \in {"Calling", "Returned"} => (sent = segments[1].text /\ calls = 1)
    /\ pc = "Returned" =>
         /\ result.kind = "Mapping"
         /\ DOMAIN result.map = {segments[1].id}
         /\ result.map[segments[1].id] =
              IF ~answer.raised /\ ~answer.error /\ ~answer.isNone /\ answer.text # <<>>
              THEN answer.text
              ELSE segments[1].text

\* C6 witness: the single call raised and the segment kept its original text.
C6_Witness ==
  /\ entry = "translate_text_robust" /\ Len(segments) = 1 /\ pc = "Returned"
  /\ answer.raised
  /\ result.map[segments[1].id] = segments[1].text

\* a text with no leading or trailing whitespace and at least one symbol
Trimmed(text) == text # <<>> /\ Strip(text) = text

\* C7: No-op rejection.  With a translator that returns its input unchanged
\* and more than one segment of trimmed, non-empty text, every marker-based
\* candidate is rejected and the mapping finally returned is the identity.
C7_NoOpRejection ==
  ( /\ InLadder /\ echoed /\ pc \in {"Accepted", "Exhausted"}
    /\ \A k \in 1..Len(segments) : Trimmed(segments[k].text) )
  => ( /\ \A k \in 1..Len(attempts) :
            attempts[k].fn # "translate_and_smart_split" => attempts[k].outcome = "rejected"
       /\ IsIdentity(result.map, segments) )

\* C8: on an empty segment sequence translate_text_robust, translate_text and
\* translate_text_with_enhanced_markers return None without a translator
\* call; on a non-empty one translate_text_robust returns a total mapping,
\* never None.
C8_EmptyInput ==
  /\ ( /\ segments = <<>>
       /\ entry \in {"translate_text_robust", "translate_text",
                     "translate_text_with_enhanced_markers"} )
     => (pc = "Returned" /\ result.kind = "None" /\ calls = 0)
  /\ (segments # <<>> /\ entry = "translate_text_robust") =>
       /\ pc \in {"TryingStrategy", "Calling", "Accepted", "Exhausted", "Returned"}
       /\ pc \in {"Accepted", "Exhausted", "Returned"} =>
            (result.kind = "Mapping" /\ DOMAIN result.map = Ids(segments))

\* C8 witness: translate_text_robust returned None for the empty sequence.
C8_Witness ==
  /\ segments = <<>> /\ entry = "translate_text_robust"
  /\ pc = "Returned" /\ result.kind = "None" /\ calls = 0

\* C9: strategies run one after another, each attempt making one translator
\* call at most: never two calls in flight, at most 3 calls for more than one
\* segment and exactly 1 for a single segment.
C9_CallBudget ==
  /\ inFlight \in {0, 1}
  /\ calls = Len(attempts) + inFlight
  /\ InLadder => calls <= 3
  /\ (entry = "translate_text_robust" /\ Len(segments) = 1 /\ pc = "Returned") => calls = 1

\* C9 witness: an exhausted ladder made exactly three calls.
C9_Witness ==
  /\ InLadder /\ pc = "Exhausted" /\ calls = 3 /\ inFlight = 0

\* C10 (Reentrancy): invocations of the translator are independent of one
\* another: a tool invocation that has finished returns what it returns when
\* it runs alone with its own credentials, whatever the other invocation did
\* in the meantime, and every translator object under way was built from the
\* credentials of the invocation that uses it.
Finished(k) == runs[k].pc \in {"Accepted", "Exhausted", "Returned", "Raised"}

C10_Independent ==
  \A k \in Invocations :
    /\ runs[k].pc = "Calling" => runs[k].translator = TranslationAPI(runs[k].own)
    /\ Finished(k) =>
         runs[k].result =
           RunsAlone(runs[k].own, segments, FirstStrategy("translate_text_robust", segments))

\* the strategy function fn has just finished and returned a mapping
JustReturned(fn) ==
  /\ attempts # <<>>
  /\ attempts[Len(attempts)].fn = fn
  /\ candidate.kind = "Mapping"
  /\ pc # "Calling"

\* where the span of the k-th segment ends in the output `full`, its marker
\* starting at p: the first marker id+1 after it, or the end of the string
\* when the segment is last or that marker is absent
SpanEnd(segs, full, k, p) ==
  IF k = Len(segs) THEN Len(full)
  ELSE LET q == Find(full, Marker(segs[k].id + 1), p + Len(Marker(segs[k].id)))
       IN  IF q = -1 THEN Len(full) ELSE q

\* C11: Marker-Split round trip.  The text sent is, segment by segment, the
\* marker [XF_SEGMENT_id] followed by the segment text, with no marker at the
\* end; a segment whose marker occurs in the translated output gets the
\* trimmed span from the end of the first occurrence of its marker to the
\* start of the first marker id+1 after it, or to the end of the string when
\* the segment is last or marker id+1 is absent.
C11_MarkerRoundTrip ==
  /\ (pc = "Calling" /\ Running = "translate_text") =>
       sent = Join([k \in 1..Len(segments) |-> Marker(segments[k].id) \o segments[k].text])
  /\ JustReturned("translate_text") =>
       \A k \in 1..Len(segments) :
         LET p == Find(answer.text, Marker(segments[k].id), 0)
         IN  p # -1 =>
               candidate.map[segments[k].id] =
                 Strip(Slice(answer.text, p + Len(Marker(segments[k].id)),
                             SpanEnd(segments, answer.text, k, p)))

\* the offset of the first occurrence of the enhanced marker of id in full
FirstMarker(full, id) == Find(full, EnhancedMarker(id), 0)

\* the offset of the next occurrence of the same marker after the first
SecondMarker(full, id) ==
  IF FirstMarker(full, id) = -1 THEN -1
  ELSE Find(full, EnhancedMarker(id), FirstMarker(full, id) + Len(EnhancedMarker(id)))

\* the text strictly between the two occurrences
Between(full, id) ==
  Slice(full, FirstMarker(full, id) + Len(EnhancedMarker(id)), SecondMarker(full, id))

\* every segment has both occurrences of its marker in full
AllPaired(segs, full) == \A k \in 1..Len(segs) : SecondMarker(full, segs[k].id) # -1

\* the text sent by the Enhanced-Marker strategy
EnhancedSent ==
  (pc = "Calling" /\ Running = "translate_text_with_enhanced_markers") =>
    sent = Join([k \in 1..Len(segments) |->
                   EnhancedMarker(segments[k].id) \o segments[k].text
                     \o EnhancedMarker(segments[k].id)])

\* C12 as stated: Enhanced-Marker round trip.  Each segment text is sent
\* between two instances of its marker; when the output holds both
\* occurrences of every segment's marker, each segment gets the text strictly
\* between the two occurrences.
C12_EnhancedRoundTrip ==
  /\ EnhancedSent
  /\ ( /\ JustReturned("translate_text_with_enhanced_markers")
       /\ AllPaired(segments, answer.text) )
     => \A k \in 1..Len(segments) :
          candidate.map[segments[k].id] = Between(answer.text, segments[k].id)

\* C12 amended: each segment gets the text between the two occurrences with
\* its surrounding whitespace removed, and its own original text when nothing
\* is left.
C12_EnhancedRoundTripTrimmed ==
  /\ EnhancedSent
  /\ ( /\ JustReturned("translate_text_with_enhanced_markers")
       /\ AllPaired(segments, answer.text) )
     => \A k \in 1..Len(segments) :
          candidate.map[segments[k].id] =
            IF Strip(Between(answer.text, segments[k].id)) # <<>>
            THEN Strip(Between(answer.text, segments[k].id))
            ELSE segments[k].text

\* C12 witness: two segments, both marker pairs in the output, and a segment
\* whose translation is the trimmed text between its markers.
C12_Witness ==
  /\ Len(segments) = 2
  /\ JustReturned("translate_text_with_enhanced_markers")
  /\ AllPaired(segments, answer.text)
  /\ \E k \in 1..2 :
       /\ candidate.map[segments[k].id] # segments[k].text
       /\ candidate.map[segments[k].id] # Between(answer.text, segments[k].id)
       /\ candidate.map[segments[k].id] = Strip(Between(answer.text, segments[k].id))

\* some segments, but not all, have both occurrences of their marker in full
PartlyPaired(segs, full) ==
  /\ \E k \in 1..Len(segs) : SecondMarker(full, segs[k].id) # -1
  /\ \E k \in 1..Len(segs) : SecondMarker(full, segs[k].id) = -1

\* C13: Enhanced-Marker escalation.  When a marker occurrence is missing for
\* some but not all segments, translate_text_with_enhanced_markers returns
\* what smart_split_translation makes of the output stripped of its marker
\* tokens, not the partially resolved mapping.
C13_Escalation ==
  ( /\ JustReturned("translate_text_with_enhanced_markers")
    /\ PartlyPaired(segments, answer.text) )
  => candidate.map =
       smart_split_translation(segments, clean_markers_from_translation(answer.text))

\* the characters of full in the slice [sl[1], sl[2])
SliceText(full, sl) == Slice(full, sl[1], sl[2])

\* the slices assigned so far are contiguous, in order, start at 0 and stay
\* inside the translated string; the cursor is where the last one ended
SlicesContiguous ==
  /\ \A j \in 1..Len(split.slices) :
       /\ split.slices[j][1] <= split.slices[j][2]
       /\ split.slices[j][2] <= Len(split.full)
       /\ split.slices[j][1] = IF j = 1 THEN 0 ELSE split.slices[j - 1][2]
  /\ split.current_pos >= 0
  /\ split.current_pos <= Len(split.full)
  /\ (split.pc = "Ratio" /\ split.i < Len(split.segs)) =>
       split.current_pos = IF split.slices = <<>> THEN 0
                           ELSE split.slices[Len(split.slices)][2]

\* the call is over and its slices, one per segment, make up the whole string
SlicesCover ==
  split.pc \in {"Returned", "Raised"} =>
    /\ Len(split.slices) = Len(split.segs)
    /\ Join([j \in 1..Len(split.slices) |-> SliceText(split.full, split.slices[j])])
         = split.full

\* C14 as stated: Smart-Split partition coverage.  For every segment sequence
\* and every translated string the untrimmed slices assigned to the segments
\* are contiguous, do not overlap, start at 0 and end at len(translated), so
\* that together they are the translated string; the cursor never decreases
\* and never exceeds len(translated).
C14_PartitionCoverage == SlicesContiguous /\ SlicesCover

\* C14 amended: the same for every segment sequence that is not empty.
C14_PartitionCoverageNonEmpty == split.segs # <<>> => (SlicesContiguous /\ SlicesCover)

\* C14 witness: a proportional split of three segments has returned; its
\* second boundary was looked for from a cursor beyond 0 and moved by the
\* snapper, and no slice is empty.
C14_Witness ==
  /\ split.pc = "Returned" /\ Len(split.segs) = 3 /\ TotalChars(split.segs) > 0
  /\ snap.pc = "Returned" /\ snap.min_pos > 0 /\ snap.ret # snap.target_pos
  /\ \A j \in 1..3 : split.slices[j][2] > split.slices[j][1]

\* C15 as stated: Boundary bounds.  For every text and every target and min
\* with 0 <= min <= target, find_best_split_position(text, target, min)
\* returns an offset r with min <= r <= len(text).
C15_BoundaryBounds ==
  (snap.pc = "Returned" /\ 0 <= snap.min_pos /\ snap.min_pos <= snap.target_pos) =>
    (snap.min_pos <= snap.ret /\ snap.ret <= Len(snap.text))

\* C15 amended: the same for min inside the text, 0 <= min <= target and
\* min <= len(text).
C15_BoundaryBoundsWithin ==
  ( /\ snap.pc = "Returned"
    /\ 0 <= snap.min_pos /\ snap.min_pos <= snap.target_pos
    /\ snap.min_pos <= Len(snap.text) )
  => (snap.min_pos <= snap.ret /\ snap.ret <= Len(snap.text))

\* C15 witness: a call with min < target < len(text) that went back to a
\* boundary character before the target.
C15_Witness ==
  /\ snap.pc = "Returned"
  /\ 0 < snap.min_pos /\ snap.min_pos < snap.target_pos
  /\ snap.target_pos < Len(snap.text)
  /\ snap.ret < snap.target_pos

KeysAreInputIds ==
  /\ result.kind = "Mapping" => DOMAIN result.map \subseteq Ids(segments)
  /\ candidate.kind = "Mapping" => DOMAIN candidate.map \subseteq Ids(segments)

\* C17: Frame.  No strategy and no path of translate_text_robust changes the
\* input segment sequence (its ids, texts and order are after every step what
\* they were at the call), and no mapping returned has a key that is not the
\* id of an input segment: only text values are produced or substituted.
C17_Frame == [][segments' = segments]_vars /\ []KeysAreInputIds

\* C17 witness: the ladder returned a mapping over the ids 0 and 1 in which
\* the text of both segments was replaced.
C17_Witness ==
  /\ InLadder /\ pc = "Accepted"
  /\ DOMAIN result.map = {0, 1}
  /\ \A k \in 1..2 : segments[k].id = k - 1 /\ result.map[k - 1] # segments[k].text

\* translate_text_robust is under way or over on a non-empty input
RobustOnInput == entry = "translate_text_robust" /\ segments # <<>>

\* translate_text_robust is over: the ladder accepted a candidate or is
\* exhausted, or the single-segment path returned
RobustTerminal ==
  \/ pc \in {"Accepted", "Exhausted"}
  \/ (Len(segments) = 1 /\ pc = "Returned")

\* between two attempts the ladder moves to a later strategy, and a terminal
\* state is never left
LadderAdvances ==
  RobustOnInput =>
    /\ strategy' >= strategy
    /\ (pc = "Calling" /\ pc' = "TryingStrategy") => strategy' > strategy
    /\ RobustTerminal => (pc' = pc /\ result' = result)

\* no strategy function is attempted twice
NoStrategyTwice ==
  RobustOnInput =>
    \A j, k \in 1..Len(attempts) : j # k => attempts[j].fn # attempts[k].fn

\* C18: Orchestrator termination.  Provided every translator call returns or
\* fails, translate_text_robust on a non-empty input goes from Idle through
\* TryingStrategy(i) with i strictly increasing, no strategy attempted twice
\* or retried, and eventually reaches one terminal state, Accepted or
\* Exhausted (or the return of the single-segment path, which has no
\* ladder), where it returns a mapping.
C18_Termination ==
  /\ [][LadderAdvances]_vars
  /\ []NoStrategyTwice
  /\ [](RobustTerminal /\ RobustOnInput => result.kind = "Mapping")
  /\ (RobustOnInput ~> RobustTerminal)

\* C18 witness: the ladder reached Accepted at its third strategy after two
\* other attempts.
C18_Witness ==
  /\ InLadder /\ pc = "Accepted" /\ strategy = 3
  /\ Len(attempts) = 3 /\ result.kind = "Mapping"

\* the strategy function fn has just finished, by a return or an exception
JustEnded(fn) ==
  /\ attempts # <<>>
  /\ attempts[Len(attempts)].fn = fn
  /\ pc # "Calling"

\* the translator call failed: it raised, set the error message, or returned
\* None or the empty string
CallFailed == answer.raised \/ answer.error \/ answer.isNone \/ answer.text = <<>>

\* C19: Marker-Split local fallback.  When the translator call succeeded, a
\* segment whose own marker is absent from the translated output is mapped to
\* its original text, the strategy is not aborted, and its result is a total
\* mapping over the segment ids whichever markers survived.
C19_MarkerLocalFallback ==
  (JustEnded("translate_text") /\ ~CallFailed) =>
    /\ candidate.kind = "Mapping"
    /\ DOMAIN candidate.map = Ids(segments)
    /\ \A k \in 1..Len(segments) :
         Find(answer.text, Marker(segments[k].id), 0) = -1
           => candidate.map[segments[k].id] = segments[k].text

\* C19 witness: of two segments the marker of the first was lost and that of
\* the second survived; the first keeps its text, the second is translated.
C19_Witness ==
  /\ JustEnded("translate_text") /\ ~CallFailed /\ Len(segments) = 2
  /\ Find(answer.text, Marker(0), 0) = -1
  /\ Find(answer.text, Marker(1), 0) # -1
  /\ candidate.map[0] = segments[1].text
  /\ candidate.map[1] # segments[2].text

\* C20: Marker-Split failure.  When its translator call fails (an exception,
\* an error message, or an empty or absent result), translate_text raises,
\* returns no mapping, and makes no second translator call.
C20_MarkerFailure ==
  /\ (JustEnded("translate_text") /\ CallFailed) =>
       /\ candidate.kind = "Raise"
       /\ attempts[Len(attempts)].outcome = "raised"
       /\ entry = "translate_text" => (pc = "Raised" /\ result = NotReturned)
  /\ entry = "translate_text" => calls <= 1
  /\ (InLadder /\ Len(attempts) = 1 /\ pc # "Calling") => calls = 1

\* C20 witness: translate_text was called directly, its translator returned
\* the empty string without an error, and translate_text raised after one call.
C20_Witness ==
  /\ entry = "translate_text" /\ pc = "Raised" /\ calls = 1
  /\ ~answer.raised /\ ~answer.error /\ ~answer.isNone /\ answer.text = <<>>
  /\ candidate.kind = "Raise"

\* some segments, but not all, have their Marker-Split marker in full
PartlyMarked(segs, full) ==
  /\ \E k \in 1..Len(segs) : Find(full, Marker(segs[k].id), 0) # -1
  /\ \E k \in 1..Len(segs) : Find(full, Marker(segs[k].id), 0) = -1

\* C21: Partial marker loss.  When some but not all segment markers survive
\* in the translated output of a marker-based strategy, the candidate is
\* rejected by the ladder or (Enhanced-Marker) replaced by the Smart-Split of
\* the output stripped of its markers, and no error reaches the caller.
C21_PartialMarkerLoss ==
  InLadder =>
    /\ pc # "Raised"
    /\ ( /\ JustEnded("translate_text") /\ ~CallFailed
         /\ PartlyMarked(segments, answer.text) )
       => attempts[Len(attempts)].outcome = "rejected"
    /\ ( /\ JustEnded("translate_text_with_enhanced_markers") /\ ~CallFailed
         /\ PartlyPaired(segments, answer.text) )
       => \/ attempts[Len(attempts)].outcome = "rejected"
          \/ candidate.map =
               smart_split_translation(segments, clean_markers_from_translation(answer.text))

\* what a segment receives from its slice: the slice without surrounding
\* whitespace, or the segment's own text when nothing is left
Received(full, sl, seg) ==
  IF Strip(SliceText(full, sl)) # <<>> THEN Strip(SliceText(full, sl)) ELSE seg.text

\* C22: Smart-Split normal case.  With total = sum of the segment text
\* lengths > 0 and a cursor starting at 0, the split point of every segment
\* but the last is find_best_split_position(translated, cursor +
\* floor(len(translated) * len(segment.text) / total), cursor); the segment
\* receives the trimmed slice [cursor, split) and the cursor advances to
\* split; the last segment receives the trimmed remainder.
C22_SmartSplitNormal ==
  (split.pc \in {"Ratio", "Returned"} /\ TotalChars(split.segs) > 0) =>
    \A j \in 1..Len(split.slices) :
      LET cursor == split.slices[j][1]
          seg == split.segs[j]
          target == cursor + (Len(split.full) * Len(seg.text)) \div TotalChars(split.segs)
      IN  /\ cursor = IF j = 1 THEN 0 ELSE split.slices[j - 1][2]
          /\ split.slices[j][2] =
               IF j < Len(split.segs)
               THEN find_best_split_position(split.full, target, cursor)
               ELSE Len(split.full)
          /\ (j < Len(split.segs) /\ j = Len(split.slices)) =>
               split.current_pos = split.slices[j][2]
          /\ split.acc[seg.id] = Received(split.full, split.slices[j], seg)

\* every segment of the call has a text that is not empty
TextsNonEmpty == \A k \in 1..Len(split.segs) : split.segs[k].text # <<>>

\* C23: Smart-Split never yields an empty translation.  For segments with
\* non-empty text, a segment whose slice is empty after trimming is given its
\* own original text, and no value of the mapping returned by
\* smart_split_translation is the empty string.
C23_NoEmptyTranslation ==
  split.pc = "Returned" =>
    \A j \in 1..Len(split.segs) :
      split.segs[j].text # <<>> =>
        /\ split.segs[j].id \in DOMAIN split.acc
        /\ split.acc[split.segs[j].id] # <<>>
        /\ Strip(SliceText(split.full, split.slices[j])) = <<>>
             => split.acc[split.segs[j].id] = split.segs[j].text

\* C23 witness: three segments of non-empty text, a translated string that
\* is not empty, and a segment whose slice holds nothing but whitespace.
C23_Witness ==
  /\ split.pc = "Returned" /\ TextsNonEmpty /\ Len(split.segs) = 3
  /\ split.full # <<>>
  /\ \E j \in 1..3 :
       /\ split.slices[j][2] > split.slices[j][1]
       /\ Strip(SliceText(split.full, split.slices[j])) = <<>>
       /\ split.acc[split.segs[j].id] = split.segs[j].text

\* the call has min < target < len(text)
SnapScans ==
  snap.pc = "Returned" /\ snap.min_pos < snap.target_pos /\ snap.target_pos < Len(snap.text)

\* C24 as stated: Boundary Snapper scan order.  For min < target < len(text) the
\* result is position+1 of the boundary character at target+k with the
\* smallest k in 0..5 if there is one; only if there is none, position+1 of
\* the boundary character at target-k with the smallest k in 1..5 and
\* position > min; a backward hit never precedes a forward hit; with no
\* boundary character in the window the result is target.
C24_ScanOrder ==
  SnapScans =>
    snap.ret =
      IF ForwardHits(snap.text, snap.target_pos) # {}
      THEN snap.target_pos + Min(ForwardHits(snap.text, snap.target_pos)) + 1
      ELSE IF BackwardHits(snap.text, snap.target_pos, snap.min_pos) # {}
      THEN snap.target_pos - Min(BackwardHits(snap.text, snap.target_pos, snap.min_pos)) + 1
      ELSE snap.target_pos

\* C24 amended: for min < target < len(text) the window is scanned by
\* increasing distance k = 0..5, the position target+k before the position
\* target-k (k >= 1, position > min) at each distance: the result is
\* position+1 of the nearest boundary character, the forward one when both
\* are at the same distance, and target when the window holds none.
C24_ScanNearest ==
  SnapScans =>
    LET fwd  == ForwardHits(snap.text, snap.target_pos)
        bwd  == BackwardHits(snap.text, snap.target_pos, snap.min_pos)
    IN  snap.ret =
          IF fwd \cup bwd = {} THEN snap.target_pos
          ELSE IF Min(fwd \cup bwd) \in fwd
               THEN snap.target_pos + Min(fwd \cup bwd) + 1
               ELSE snap.target_pos - Min(fwd \cup bwd) + 1

\* C24 witness: a boundary character one position before the target and
\* another two positions after it: the result is the backward one.
C24_Witness ==
  /\ SnapScans
  /\ ForwardHits(snap.text, snap.target_pos) # {}
  /\ BackwardHits(snap.text, snap.target_pos, snap.min_pos) # {}
  /\ Min(BackwardHits(snap.text, snap.target_pos, snap.min_pos))
       < Min(ForwardHits(snap.text, snap.target_pos))
  /\ snap.ret = snap.target_pos
                  - Min(BackwardHits(snap.text, snap.target_pos, snap.min_pos)) + 1

\* C25: Boundary Snapper fixed cases.  find_best_split_position returns
\* len(text) whenever target >= len(text), and min whenever target <= min and
\* target < len(text), whatever boundary characters the text holds.
C25_FixedCases ==
  snap.pc = "Returned" =>
    /\ snap.target_pos >= Len(snap.text) => snap.ret = Len(snap.text)
    /\ (snap.target_pos < Len(snap.text) /\ snap.target_pos <= snap.min_pos)
         => snap.ret = snap.min_pos

\* C25 witness: target <= min < len(text) with a boundary character at the
\* target: the result is min.
C25_Witness ==
  /\ snap.pc = "Returned"
  /\ snap.target_pos <= snap.min_pos /\ snap.min_pos < Len(snap.text)
  /\ snap.text[snap.target_pos + 1] \in split_chars
  /\ snap.ret = snap.min_pos

\* the segments and the words of the recognition result
RecognizedSegments == ws.result_instance.semantic_segments
RecognizedWords == ws.result_instance.word_details

\* C26: Segment id invariant of the recognition result.  After any sequence
\* of on_message callbacks every segment of result.semantic_segments has the
\* id of its position (0..n-1, in order, no gap even when messages of blank
\* text are skipped), so the marker for id+1 is the marker of the next segment.
C26_SegmentIds ==
  \A k \in 1..Len(RecognizedSegments) :
    /\ RecognizedSegments[k].id = k - 1
    /\ k < Len(RecognizedSegments)
         => Marker(RecognizedSegments[k].id + 1) = Marker(RecognizedSegments[k + 1].id)

\* C26 witness: three messages were handled, the second of blank text: two
\* segments, with words between them that belong to no segment.
C26_Witness ==
  /\ ws.handled = 3
  /\ Len(RecognizedSegments) = 2
  /\ RecognizedSegments[2].word_indices[1] > RecognizedSegments[1].word_indices[2] + 1
  /\ RecognizedSegments[2].id = 1

\* C27: Every segment handed to the alignment engine has a non-empty, trimmed
\* text: after any sequence of on_message callbacks no segment of
\* result.semantic_segments has an empty text or a text with leading or
\* trailing whitespace.
C27_TrimmedText ==
  \A k \in 1..Len(RecognizedSegments) : Trimmed(RecognizedSegments[k].text)

\* the texts of the words start..end (0-based, inclusive), concatenated
WordsText(start, end) ==
  Join([k \in 1..(end - start + 1) |-> RecognizedWords[start + k].text])

\* C28: Word-range invariant of the recognition result.  After any sequence
\* of on_message callbacks every segment's word_indices [start, end] has
\* 0 <= start <= end < len(word_details), the ranges of successive segments
\* are strictly increasing and disjoint, and the segment's text is the
\* concatenation of the texts of word_details[start..end].
C28_WordRanges ==
  \A k \in 1..Len(RecognizedSegments) :
    LET start == RecognizedSegments[k].word_indices[1]
        end   == RecognizedSegments[k].word_indices[2]
    IN  /\ 0 <= start /\ start <= end /\ end < Len(RecognizedWords)
        /\ RecognizedSegments[k].text = WordsText(start, end)
        /\ k < Len(RecognizedSegments)
             => end < RecognizedSegments[k + 1].word_indices[1]

\* C28 witness: two segments of two words each, and words of a skipped
\* message between them.
C28_Witness ==
  /\ Len(RecognizedSegments) = 2
  /\ RecognizedSegments[1].word_indices = <<0, 1>>
  /\ RecognizedSegments[2].word_indices[1] > 2
  /\ RecognizedSegments[2].word_indices[2] = RecognizedSegments[2].word_indices[1] + 1
  /\ Len(RecognizedWords) = RecognizedSegments[2].word_indices[2] + 1

\* the frames sent so far are a beginning of: one frame of status 0 with the
\* recognition parameters, frames of status 1, one frame of status 2
FramesInOrder ==
  \A k \in 1..Len(ws.frames) :
    /\ k = 1 => ws.frames[k].status = 0 /\ ws.frames[k].parameter
    /\ k > 1 => ws.frames[k].status \in {1, 2} /\ ~ws.frames[k].parameter
    /\ ws.frames[k].status = 2 => k = Len(ws.frames)

\* C29: Audio frame protocol.  For any audio file, while the socket stays
\* open and no send fails, the sender thread emits exactly one frame of
\* status 0 (the first one, the only one with the recognition parameters),
\* then frames of status 1, then exactly one frame of status 2 and nothing
\* after it; once the socket is closed or a send has failed, no further frame
\* is sent.
C29_FrameProtocol ==
  /\ [](FramesInOrder)
  /\ [][(~ws.sock \/ thread.pc = "Done") => ws'.frames = ws.frames]_vars
  /\ [][(thread.pc = "Send" /\ thread'.pc = "Done" /\ ws'.frames # ws.frames)
          => ws'.frames[Len(ws'.frames)].status = 2]_vars

\* C30: Bounded download retry.  For a URL audio source the sender makes at
\* most 3 download attempts, stops at the first success, and when all 3 fail
\* it records the failure in result.error_message and sends no audio frame.
C30_BoundedRetry ==
  /\ [](/\ thread.tried <= 3
        /\ thread.downloaded => thread.pc # "Download"
        /\ (thread.url /\ ~thread.downloaded /\ thread.pc \notin {"Started", "Download"})
             => (thread.tried = 3 /\ thread.pc = "Done" /\ ws.frames = <<>>))
  /\ [][/\ thread.downloaded => thread'.tried = thread.tried
        /\ (thread.pc = "Download" /\ thread'.pc = "Done")
             => (thread'.tried = 3 /\ ws'.result_instance.error_message = "download")
        /\ (thread.pc = "Download" /\ thread'.tried = 3 /\ ~thread'.downloaded)
             => thread'.pc = "Done"]_vars

\* C30 witness: three attempts were made for a URL, none succeeded; the
\* failure is in result.error_message and no frame was sent.
C30_Witness ==
  /\ thread.url /\ thread.pc = "Done" /\ thread.tried = 3 /\ ~thread.downloaded
  /\ ws.result_instance.error_message = "download"
  /\ ws.frames = <<>>

\* xunfei_mandarin_asr_translate has returned
ToolReturned == tool.pc = "Returned"

\* the recognition of the call ended with an exception
RecognitionFailed == thread.pc = "NotStarted" \/ ws.result_instance.error_message # ""

\* the error tuple: no text, {} and a message
ErrorTuple ==
  /\ tool.returned.text = <<>>
  /\ tool.returned.transcription = <<>>
  /\ tool.returned.message # ""

\* C31: Pipeline short-circuit.  If speech recognition raises, the translator
\* is never invoked and the result is ("", {}, non-empty message); if the
\* translation raises, the result is likewise ("", {}, non-empty message);
\* and whenever the returned message is non-empty the returned text is empty
\* and the returned transcription is {}.
C31_ShortCircuit ==
  /\ RecognitionFailed => (entry = "none" /\ calls = 0 /\ pc = "Idle")
  /\ ToolReturned =>
       /\ RecognitionFailed => ErrorTuple
       /\ pc = "Raised" => ErrorTuple
       /\ tool.returned.message # "" => ErrorTuple

\* C31 witness: the service sent an error after a segment was recognized:
\* speech_to_text raised, translate_text_robust was never entered, and the
\* tool returned the error tuple.
C31_Witness ==
  /\ ToolReturned
  /\ ws.result_instance.error_message = "service"
  /\ RecognizedSegments # <<>>
  /\ entry = "none" /\ calls = 0
  /\ tool.returned = ReturnTuple(<<>>, <<>>, "recognition")

\* the mapping translate_text_robust returned ({} when it returned None)
ReturnedMapping == IF result.kind = "Mapping" THEN result.map ELSE <<>>

\* the sentences of the returned JSON
Sentences == tool.returned.transcription.transcripts[1].sentences

\* the JSON holds one sentence per segment, in order, with the segment's
\* times and text and the mapping's value for its id
SentencesOfSegments ==
  /\ Len(Sentences) = Len(RecognizedSegments)
  /\ \A k \in 1..Len(RecognizedSegments) :
       /\ RecognizedSegments[k].id \in DOMAIN ReturnedMapping
       /\ Sentences[k].sentence_id = k
       /\ Sentences[k].begin_time = RecognizedSegments[k].begin_time
       /\ Sentences[k].end_time = RecognizedSegments[k].end_time
       /\ Sentences[k].source_text = RecognizedSegments[k].text
       /\ Sentences[k].text = ReturnedMapping[RecognizedSegments[k].id]

\* the mapping's values for the segments' ids, concatenated in segment order
MappedText ==
  Join([k \in 1..Len(RecognizedSegments) |->
          DictGet(ReturnedMapping, RecognizedSegments[k].id, <<>>)])

\* the tool returned without an error message
ToolSucceeded == ToolReturned /\ tool.returned.message = ""

\* C32 as stated: Pipeline output preserves segment identity, order and
\* timing.  On success the returned full translation is the concatenation, in
\* segment order, of the mapping's value for each segment id, and the JSON
\* holds exactly one sentence per input segment in input order, with
\* sentence_id = position+1, begin_time, end_time and source_text copied from
\* the segment and text equal to the mapping's value for the segment's id.
C32_OutputPreserves ==
  ToolSucceeded =>
    /\ tool.returned.text = MappedText
    /\ tool.returned.transcription.transcripts[1].text = tool.returned.text
    /\ SentencesOfSegments

\* C32 amended: the same when the recognition gave at least one segment; with
\* no segment the returned full translation is the recognized text, which
\* then holds nothing but whitespace, and the JSON holds no sentence.
C32_OutputPreservesSegments ==
  ToolSucceeded =>
    /\ tool.returned.text =
         IF RecognizedSegments # <<>> THEN MappedText
         ELSE ws.result_instance.recognized_text
    /\ RecognizedSegments = <<>> => Strip(ws.result_instance.recognized_text) = <<>>
    /\ tool.returned.transcription.transcripts[1].text = tool.returned.text
    /\ SentencesOfSegments

\* C32 witness: two segments were recognized, the ladder accepted a mapping
\* that differs from the texts, and the tool returned text and JSON.
C32_Witness ==
  /\ ToolSucceeded
  /\ Len(RecognizedSegments) = 2
  /\ pc = "Accepted"
  /\ \A k \in 1..2 : ReturnedMapping[RecognizedSegments[k].id] # RecognizedSegments[k].text
  /\ tool.returned.text = MappedText
  /\ Len(Sentences) = 2

====
